---- MODULE Spec2Model ----
(***************************************************************************)
(* numberbot: a Telegram bot that sells time-limited subscriptions and     *)
(* lets subscribers browse, buy, read and release Twilio phone numbers.    *)
(* The model covers src/main.py (the complete program text starts at line  *)
(* 778; the lines before it are a truncated copy of the same text).        *)
(*                                                                         *)
(* Persistent state: the three MongoDB collections (users, credentials,    *)
(* numbers).  Volatile state: aiogram's per-user FSM state and data.       *)
(* Collaborators: Twilio (which account holds which number) and the clock. *)
(* pymongo and the Twilio client are synchronous, so a coroutine can be    *)
(* interleaved with others only where it awaits the Telegram API           *)
(* (bot.send_message and friends).  A handler is cut at every await that   *)
(* has a write before it and a write or an upstream call after it: the     *)
(* first action runs up to the await and leaves the chat's pc there, the   *)
(* next one goes on from it.  The awaited call can raise; where nothing    *)
(* around it catches that the handler ends at the await (error_handler     *)
(* only logs and notifies), so the action before the await ends either     *)
(* suspended or, when the call raised, with the handler over.  An await    *)
(* with no write before it is not cut: when it raises nothing has changed. *)
(***************************************************************************)
EXTENDS Integers, Sequences, FiniteSets, Bags, TLC

VARIABLES
    users,        \* users_collection: telegram_id -> document
    credentials,  \* credentials_collection, in insertion order
    numbers,      \* numbers_collection, in insertion order
    held,         \* Twilio: number -> account sid that owns it, or Free
    now,          \* datetime.now(), in hours
    state,        \* aiogram FSM state of each chat
    data,         \* aiogram FSM data of each chat
    pc,           \* the await each chat's running handler is suspended at
    loc,          \* the locals that handler keeps across its awaits
    sweep,        \* check_subscriptions: the batch it still has to write
    rot,          \* the last call of get_next_sid and what it returned
    lastbuy,      \* history: the credential index of each user's last successful purchase
    ret,          \* the last call of a core operation and what it returned
    outbox        \* bag of the messages the bot has sent: approval requests, expiry notices

vars == <<users, credentials, numbers, held, now, state, data, pc, loc, sweep, rot, lastbuy, ret,
          outbox>>

(***************************** bounds ***************************************)
MaxTime == 7      \* the clock stops here
MaxLedgerTime == 14   \* the clock of the ledger alone: room for a second lapse
MaxCreds == 2     \* stored credential documents
MaxBrokerCreds == 1   \* the credentials loaded where both chats act
MaxWelcomeTime == 6   \* the clock of the welcome path: the first grant lapses
MaxList == 4      \* length of a Twilio listing and largest limit in a direct call
MaxExclude == 2   \* length of exclude_numbers in a direct call

(*************************** program constants ******************************)
\* Telegram ids are written as their decimal strings (they do not fit 32 bits)
BOSS_ID == "6917210823"
ADMIN_IDS == <<"6917210457", "6917210899", "4779333778">>
ALL_ADMIN_IDS == <<BOSS_ID>> \o ADMIN_IDS

SUBSCRIPTION_PLANS ==
    [k \in {"6_hours", "1_day", "7_days", "15_days"} |->
        CASE k = "6_hours" -> [name |-> "6 hours", duration |-> 6]
          [] k = "1_day"   -> [name |-> "1 day", duration |-> 24]
          [] k = "7_days"  -> [name |-> "7 days", duration |-> 168]
          [] k = "15_days" -> [name |-> "15 days", duration |-> 360]]

\* limit=15 of get_canada_numbers, and the limit=30 it passes to Twilio
DefaultLimit == 15
TwilioLimit == 30

(************************** the model's universe ****************************)
Subscribers == {"101"}
UserIds == Subscribers \cup {BOSS_ID}
AccountSeq == <<"AC1", "AC2">>
Accounts == {AccountSeq[i] : i \in 1..Len(AccountSeq)}
Catalog == <<"+1555A", "+1555B">>             \* Twilio's CA inventory, in its order
Numbers == {Catalog[i] : i \in 1..Len(Catalog)}
Free == "free"
None == <<>>                                  \* Python None for an optional value
Some(x) == <<x>>

Min(a, b) == IF a < b THEN a ELSE b

(***************************** Twilio ***************************************)
\* The sid Twilio gives the incoming-phone-number resource it creates for a
\* number (purchased_number.sid); it is a different string from the number.
PNSid(n) ==
    CASE n = "+1555A" -> "PN-A"
      [] n = "+1555B" -> "PN-B"
      [] n = "+1555C" -> "PN-C"
      [] n = "+1555D" -> "PN-D"
      [] OTHER -> "PN-?"

\* client.incoming_phone_numbers.create(phone_number=n) under account sid: Twilio
\* sells a number to one account at a time; net is whether the request got through.
TwilioCreateOk(hd, sid, n, net) == net /\ n \in DOMAIN hd /\ hd[n] = Free

\* client.incoming_phone_numbers(ref).delete() under account sid: ref has to be a
\* resource of that account.
TwilioDeleteOk(hd, sid, ref, net) ==
    net /\ \E n \in DOMAIN hd : PNSid(n) = ref /\ hd[n] = sid

\* client.available_phone_numbers('CA').local.list(limit=30): the inventory in
\* Twilio's order; a stale listing still shows numbers that were just sold.
TwilioAvailable(hd, stale) ==
    LET all == IF stale THEN Catalog
               ELSE SelectSeq(Catalog, LAMBDA n : hd[n] = Free)
    IN  SubSeq(all, 1, Min(TwilioLimit, Len(all)))

(************************* utility functions ********************************)
InSeq(x, s) == \E i \in 1..Len(s) : s[i] = x

is_admin_all(user_id) == TRUE

is_admin_none(user_id) == FALSE

is_admin(user_id) == InSeq(user_id, ALL_ADMIN_IDS)

\* User.__init__
NewUser ==
    [is_active |-> FALSE, subscription_type |-> None,
     subscription_end |-> None, current_sid_index |-> 0]

\* get_user: the document, or None
HasUser(us, id) == id \in DOMAIN us

\* save_user: update_one(..., {"$set": user.to_dict()}, upsert=True) writes every field
save_user(us, id, user) ==
    [x \in DOMAIN us \cup {id} |-> IF x = id THEN user ELSE us[x]]

is_subscription_active(user, t) ==
    IF user.subscription_end = None THEN FALSE
    ELSE t < user.subscription_end[1]

update_subscription(us, id, user, plan_key, t) ==
    LET plan == SUBSCRIPTION_PLANS[plan_key]
    IN  save_user(us, id,
            [user EXCEPT !.subscription_type = Some(plan.name),
                         !.subscription_end = Some(t + plan.duration),
                         !.is_active = TRUE])

get_valid_credentials(creds) == SelectSeq(creds, LAMBDA c : c.is_valid)

save_credential(creds, telegram_id, sid) ==
    Append(creds, [telegram_id |-> telegram_id, sid |-> sid, is_valid |-> TRUE])

get_next_sid_advance(us, id, user, creds) ==
    LET valid == get_valid_credentials(creds)
        reset == user.current_sid_index >= Len(valid)
        index == IF reset THEN 0 ELSE user.current_sid_index
    IN  IF Len(valid) = 0
        THEN [found |-> FALSE, sid |-> "", index |-> user.current_sid_index,
              count |-> 0, saved |-> FALSE, users |-> us]
        ELSE [found |-> TRUE, sid |-> valid[index + 1].sid, index |-> index,
              count |-> Len(valid), saved |-> TRUE,
              users |-> save_user(us, id,
                  [user EXCEPT !.current_sid_index = (index + 1) % Len(valid)])]

get_next_sid_unsaved(us, id, user, creds) ==
    LET valid == get_valid_credentials(creds)
        reset == user.current_sid_index >= Len(valid)
        index == IF reset THEN 0 ELSE user.current_sid_index
    IN  IF Len(valid) = 0
        THEN [found |-> FALSE, sid |-> "", index |-> user.current_sid_index,
              count |-> 0, saved |-> FALSE, users |-> us]
        ELSE [found |-> TRUE, sid |-> valid[index + 1].sid, index |-> index,
              count |-> Len(valid), saved |-> FALSE, users |-> us]

\* get_next_sid(user): found is FALSE for the (None, None) return; users is the
\* collection after the save the reset branch makes.
get_next_sid_touch(us, id, user, creds) ==
    LET valid == get_valid_credentials(creds)
        reset == user.current_sid_index >= Len(valid)
        index == IF reset THEN 0 ELSE user.current_sid_index
    IN  [found |-> Len(valid) > 0,
         sid |-> IF Len(valid) = 0 THEN "" ELSE valid[index + 1].sid,
         index |-> index, count |-> Len(valid), saved |-> reset,
         users |-> IF reset
                   THEN save_user(us, id, [user EXCEPT !.current_sid_index = 0])
                   ELSE us]

get_next_sid(us, id, user, creds) ==
    LET valid == get_valid_credentials(creds)
        reset == user.current_sid_index >= Len(valid)
        index == IF reset THEN 0 ELSE user.current_sid_index
    IN  IF Len(valid) = 0
        THEN [found |-> FALSE, sid |-> "", index |-> user.current_sid_index,
              count |-> 0, saved |-> FALSE, users |-> us]
        ELSE [found |-> TRUE, sid |-> valid[index + 1].sid, index |-> index,
              count |-> Len(valid), saved |-> reset,
              users |-> IF reset
                        THEN save_user(us, id, [user EXCEPT !.current_sid_index = 0])
                        ELSE us]

\* the for loop of get_canada_numbers over available_numbers[i..]
RECURSIVE FilterLoop(_, _, _, _, _, _)
FilterLoop(avail, i, used, exclude, limit, result) ==
    IF i > Len(avail) THEN result
    ELSE IF avail[i] \notin used /\ ~InSeq(avail[i], exclude)
         THEN LET r == Append(result, avail[i])
              IN  IF Len(r) >= limit THEN r
                  ELSE FilterLoop(avail, i + 1, used, exclude, limit, r)
         ELSE FilterLoop(avail, i + 1, used, exclude, limit, result)

UsedNumbers(nums) == {nums[i].number : i \in 1..Len(nums)}

get_canada_numbers_unexcluded(avail, net, nums, limit, exclude) ==
    IF ~net THEN [numbers |-> <<>>, error |-> Some("TwilioRestException")]
    ELSE [numbers |-> FilterLoop(avail, 1, UsedNumbers(nums), <<>>, limit, <<>>),
          error |-> None]

\* get_canada_numbers: avail is what Twilio listed, net whether the call succeeded
get_canada_numbers(avail, net, nums, limit, exclude) ==
    IF ~net THEN [numbers |-> <<>>, error |-> Some("TwilioRestException")]
    ELSE [numbers |-> FilterLoop(avail, 1, UsedNumbers(nums), exclude, limit, <<>>),
          error |-> None]

\* find_one({"number": n}): index of the first matching document, 0 for None
FindNumber(nums, n) ==
    IF \E i \in 1..Len(nums) : nums[i].number = n
    THEN CHOOSE i \in 1..Len(nums) :
            nums[i].number = n /\ \A j \in 1..(i - 1) : nums[j].number # n
    ELSE 0

\* delete_one({"number": n})
DeleteOne(nums, n) ==
    LET i == FindNumber(nums, n)
    IN  IF i = 0 THEN nums
        ELSE SubSeq(nums, 1, i - 1) \o SubSeq(nums, i + 1, Len(nums))

buy_number_insert_first(sid, phone_number, user_id, net, us, creds, nums, hd) ==
    LET nums2 == Append(nums, [number |-> phone_number,
                               twilio_sid |-> PNSid(phone_number),
                               user_id |-> user_id])
        count == Len(get_valid_credentials(creds))
    IN  IF ~TwilioCreateOk(hd, sid, phone_number, net)
        THEN [ok |-> FALSE, err |-> "TwilioRestException", upstream |-> <<"create">>,
              users |-> us, numbers |-> nums2, held |-> hd]
        ELSE IF ~HasUser(us, user_id) \/ count = 0
        THEN [ok |-> HasUser(us, user_id) = FALSE, err |-> "", upstream |-> <<"create">>,
              users |-> us, numbers |-> nums2,
              held |-> [hd EXCEPT ![phone_number] = sid]]
        ELSE [ok |-> TRUE, err |-> "", upstream |-> <<"create">>,
              users |-> save_user(us, user_id,
                  [us[user_id] EXCEPT !.current_sid_index =
                      (us[user_id].current_sid_index + 1) % count]),
              numbers |-> nums2, held |-> [hd EXCEPT ![phone_number] = sid]]

\* the document stores the number where Twilio's reference belongs
buy_number_wrong_ref(sid, phone_number, user_id, net, us, creds, nums, hd) ==
    IF ~TwilioCreateOk(hd, sid, phone_number, net)
    THEN [ok |-> FALSE, err |-> "TwilioRestException", upstream |-> <<"create">>,
          users |-> us, numbers |-> nums, held |-> hd]
    ELSE LET hd2 == [hd EXCEPT ![phone_number] = sid]
             nums2 == Append(nums, [number |-> phone_number,
                                    twilio_sid |-> phone_number,
                                    user_id |-> user_id])
             count == Len(get_valid_credentials(creds))
         IN  IF ~HasUser(us, user_id)
             THEN [ok |-> TRUE, err |-> "", upstream |-> <<"create">>,
                   users |-> us, numbers |-> nums2, held |-> hd2]
             ELSE IF count = 0
             THEN [ok |-> FALSE, err |-> "ZeroDivisionError", upstream |-> <<"create">>,
                   users |-> us, numbers |-> nums2, held |-> hd2]
             ELSE [ok |-> TRUE, err |-> "", upstream |-> <<"create">>,
                   users |-> save_user(us, user_id,
                       [us[user_id] EXCEPT !.current_sid_index =
                           (us[user_id].current_sid_index + 1) % count]),
                   numbers |-> nums2, held |-> hd2]

\* the cursor is advanced before the document is inserted
buy_number_advance_first(sid, phone_number, user_id, net, us, creds, nums, hd) ==
    IF ~TwilioCreateOk(hd, sid, phone_number, net)
    THEN [ok |-> FALSE, err |-> "TwilioRestException", upstream |-> <<"create">>,
          users |-> us, numbers |-> nums, held |-> hd]
    ELSE LET hd2 == [hd EXCEPT ![phone_number] = sid]
             nums2 == Append(nums, [number |-> phone_number,
                                    twilio_sid |-> PNSid(phone_number),
                                    user_id |-> user_id])
             count == Len(get_valid_credentials(creds))
         IN  IF ~HasUser(us, user_id)
             THEN [ok |-> TRUE, err |-> "", upstream |-> <<"create">>,
                   users |-> us, numbers |-> nums2, held |-> hd2]
             ELSE IF count = 0
             THEN [ok |-> FALSE, err |-> "ZeroDivisionError", upstream |-> <<"create">>,
                   users |-> us, numbers |-> nums, held |-> hd2]
             ELSE [ok |-> TRUE, err |-> "", upstream |-> <<"create">>,
                   users |-> save_user(us, user_id,
                       [us[user_id] EXCEPT !.current_sid_index =
                           (us[user_id].current_sid_index + 1) % count]),
                   numbers |-> nums2, held |-> hd2]

\* buy_number(sid, auth_token, phone_number, user_id).  upstream lists the Twilio
\* calls made; the except branches turn every exception into (False, str(e)).
buy_number(sid, phone_number, user_id, net, us, creds, nums, hd) ==
    IF ~TwilioCreateOk(hd, sid, phone_number, net)
    THEN [ok |-> FALSE, err |-> "TwilioRestException", upstream |-> <<"create">>,
          users |-> us, numbers |-> nums, held |-> hd]
    ELSE LET hd2 == [hd EXCEPT ![phone_number] = sid]
             nums2 == Append(nums, [number |-> phone_number,
                                    twilio_sid |-> PNSid(phone_number),
                                    user_id |-> user_id])
             count == Len(get_valid_credentials(creds))
         IN  IF ~HasUser(us, user_id)
             THEN [ok |-> TRUE, err |-> "", upstream |-> <<"create">>,
                   users |-> us, numbers |-> nums2, held |-> hd2]
             ELSE IF count = 0
             THEN [ok |-> FALSE, err |-> "ZeroDivisionError", upstream |-> <<"create">>,
                   users |-> us, numbers |-> nums2, held |-> hd2]
             ELSE [ok |-> TRUE, err |-> "", upstream |-> <<"create">>,
                   users |-> save_user(us, user_id,
                       [us[user_id] EXCEPT !.current_sid_index =
                           (us[user_id].current_sid_index + 1) % count]),
                   numbers |-> nums2, held |-> hd2]

delete_number_keep(sid, number, net, nums, hd) ==
    LET i == FindNumber(nums, number)
    IN  IF i = 0
        THEN [ok |-> FALSE, err |-> "Number not found in database", upstream |-> <<>>,
              ref |-> "", numbers |-> nums, held |-> hd]
        ELSE IF ~TwilioDeleteOk(hd, sid, nums[i].twilio_sid, net)
        THEN [ok |-> FALSE, err |-> "TwilioRestException", upstream |-> <<"delete">>,
              ref |-> nums[i].twilio_sid,
              numbers |-> nums, held |-> hd]
        ELSE [ok |-> TRUE, err |-> "", upstream |-> <<"delete">>,
              ref |-> nums[i].twilio_sid,
              numbers |-> nums,
              held |-> [n \in DOMAIN hd |->
                          IF PNSid(n) = nums[i].twilio_sid THEN Free ELSE hd[n]]]

delete_number_remove_first(sid, number, net, nums, hd) ==
    LET i == FindNumber(nums, number)
    IN  IF i = 0
        THEN [ok |-> FALSE, err |-> "Number not found in database", upstream |-> <<>>,
              ref |-> "", numbers |-> nums, held |-> hd]
        ELSE IF ~TwilioDeleteOk(hd, sid, nums[i].twilio_sid, net)
        THEN [ok |-> FALSE, err |-> "TwilioRestException", upstream |-> <<"delete">>,
              ref |-> nums[i].twilio_sid,
              numbers |-> DeleteOne(nums, number), held |-> hd]
        ELSE [ok |-> TRUE, err |-> "", upstream |-> <<"delete">>,
              ref |-> nums[i].twilio_sid,
              numbers |-> DeleteOne(nums, number),
              held |-> [n \in DOMAIN hd |->
                          IF PNSid(n) = nums[i].twilio_sid THEN Free ELSE hd[n]]]

delete_number_no_lookup(sid, number, net, nums, hd) ==
    LET i == FindNumber(nums, number)
        ref == IF i = 0 THEN PNSid(number) ELSE nums[i].twilio_sid
    IN  IF ~TwilioDeleteOk(hd, sid, ref, net)
        THEN [ok |-> FALSE, err |-> "TwilioRestException", upstream |-> <<"delete">>,
              ref |-> ref,
              numbers |-> nums, held |-> hd]
        ELSE [ok |-> TRUE, err |-> "", upstream |-> <<"delete">>,
              ref |-> ref,
              numbers |-> DeleteOne(nums, number),
              held |-> [n \in DOMAIN hd |-> IF PNSid(n) = ref THEN Free ELSE hd[n]]]

\* the release is addressed to the first parameter, which is named twilio_sid
delete_number_by_parameter(sid, number, net, nums, hd) ==
    LET i == FindNumber(nums, number)
    IN  IF i = 0
        THEN [ok |-> FALSE, err |-> "Number not found in database", upstream |-> <<>>,
              ref |-> "", numbers |-> nums, held |-> hd]
        ELSE IF ~TwilioDeleteOk(hd, sid, sid, net)
        THEN [ok |-> FALSE, err |-> "TwilioRestException", upstream |-> <<"delete">>,
              ref |-> sid, numbers |-> nums, held |-> hd]
        ELSE [ok |-> TRUE, err |-> "", upstream |-> <<"delete">>, ref |-> sid,
              numbers |-> DeleteOne(nums, number),
              held |-> [n \in DOMAIN hd |-> IF PNSid(n) = sid THEN Free ELSE hd[n]]]

\* delete_number(twilio_sid, auth_token, number); its first parameter is the
\* account sid of the credential
delete_number(sid, number, net, nums, hd) ==
    LET i == FindNumber(nums, number)
    IN  IF i = 0
        THEN [ok |-> FALSE, err |-> "Number not found in database", upstream |-> <<>>,
              ref |-> "", numbers |-> nums, held |-> hd]
        ELSE IF ~TwilioDeleteOk(hd, sid, nums[i].twilio_sid, net)
        THEN [ok |-> FALSE, err |-> "TwilioRestException", upstream |-> <<"delete">>,
              ref |-> nums[i].twilio_sid,
              numbers |-> nums, held |-> hd]
        ELSE [ok |-> TRUE, err |-> "", upstream |-> <<"delete">>,
              ref |-> nums[i].twilio_sid,
              numbers |-> DeleteOne(nums, number),
              held |-> [n \in DOMAIN hd |->
                          IF PNSid(n) = nums[i].twilio_sid THEN Free ELSE hd[n]]]

(******************************* state **************************************)
\* a message of the bot: an approval request ("request", to an administrator,
\* about a user, naming a plan) or an expiry notice ("expired", at: the expiry
\* of the document the sweeper wrote); ok is whether Telegram delivered it
Msg(kind, to, about, plan, at, ok) ==
    [kind |-> kind, to |-> to, about |-> about, plan |-> plan, at |-> at, ok |-> ok]

\* the messages in the chats whose buttons the model follows: a delivered
\* request carries Approve and Deny until its caption is edited, and a listing
\* carries get_number_action_keyboard(n) for its first number n: Buy, OTP, Copy
\* and Delete of n, Refresh Numbers and Back to Main Menu.  The other buttons
\* (Load Credential, Browse Numbers, Start, the plans) are taken to be in every
\* chat, from this session or an earlier one.
Request(a, target, plan_name) == Msg("request", a, target, plan_name, None, TRUE)
Listing(u, n) == Msg("listing", u, n, "", None, TRUE)
Put(box, m) == IF BagIn(m, box) THEN box ELSE box (+) SetToBag({m})
HasButton(u, n) == BagIn(Listing(u, n), outbox)
Requests(a) == {m \in BagToSet(outbox) : m.kind = "request" /\ m.to = a /\ m.ok}
Admins == {ALL_ADMIN_IDS[i] : i \in 1..Len(ALL_ADMIN_IDS)}

\* FSM data of a chat that has stored nothing
NoData == [current_numbers |-> <<>>, selected_plan |-> None]
NoLoc == [number |-> "", sid |-> "", index |-> 0, next |-> "", exclude |-> <<>>, plan |-> ""]
NoBuy == 0 - 1
NoRot == [user |-> "", found |-> FALSE, stored |-> 0, index |-> 0, count |-> 0,
          saved |-> FALSE]
NoArgs == [avail |-> <<>>, limit |-> 0, exclude |-> <<>>]
NoRet == [op |-> "", user |-> "", number |-> "", sid |-> "", ok |-> FALSE, err |-> "",
          upstream |-> <<>>, present |-> FALSE, result |-> <<>>, args |-> NoArgs,
          about |-> "", notified |-> <<>>, shown |-> "", ref |-> ""]

RotOf(u, user, r) ==
    [user |-> u, found |-> r.found, stored |-> user.current_sid_index,
     index |-> r.index, count |-> r.count, saved |-> r.saved]

Init ==
    /\ users = [x \in {} |-> NewUser]
    /\ credentials = <<>>
    /\ numbers = <<>>
    /\ held = [n \in Numbers |-> Free]
    /\ now = 0
    /\ state = [u \in UserIds |-> "none"]
    /\ data = [u \in UserIds |-> NoData]
    /\ pc = [u \in UserIds |-> "idle"]
    /\ loc = [u \in UserIds |-> NoLoc]
    /\ sweep = <<>>
    /\ rot = NoRot
    /\ lastbuy = [u \in UserIds |-> NoBuy]
    /\ ret = NoRet
    /\ outbox = EmptyBag

\* the clock moves on, to the end of the shortest plan or an hour past it
TickTo(max) ==
    /\ \E d \in {SUBSCRIPTION_PLANS["6_hours"].duration,
                 SUBSCRIPTION_PLANS["6_hours"].duration + 1} :
          /\ now + d <= max
          /\ now' = now + d
    /\ UNCHANGED <<users, credentials, numbers, held, state, data, pc, loc, sweep,
                   rot, lastbuy, ret, outbox>>

Tick == TickTo(MaxTime)

(***************************** handlers *************************************)
\* /start, registered without a state: it runs for a chat that has no FSM state
\* yet.  Up to the welcome: the document of a first contact is saved, the state
\* to set is decided, and message.reply is awaited (replied: it did not raise)
cmd_start(u) ==
    /\ state[u] = "none" /\ pc[u] = "idle"
    /\ users' = IF HasUser(users, u) THEN users ELSE save_user(users, u, NewUser)
    /\ \E replied \in BOOLEAN :
          IF replied
          THEN /\ pc' = [pc EXCEPT ![u] = "start"]
               /\ loc' = [loc EXCEPT ![u] = [NoLoc EXCEPT !.next =
                    IF is_admin(u) THEN "main_menu"
                    ELSE IF users'[u].is_active /\ is_subscription_active(users'[u], now)
                         THEN "main_menu" ELSE "start"]]
          ELSE UNCHANGED <<pc, loc>>
    /\ UNCHANGED <<credentials, numbers, held, now, state, data, sweep, rot, lastbuy, ret,
                   outbox>>

\* ... and after the welcome: BotStates.main_menu.set() or BotStates.start.set()
StartSet(u) ==
    /\ pc[u] = "start"
    /\ state' = [state EXCEPT ![u] = loc[u].next]
    /\ pc' = [pc EXCEPT ![u] = "idle"]
    /\ loc' = [loc EXCEPT ![u] = NoLoc]
    /\ UNCHANGED <<users, credentials, numbers, held, now, data, sweep, rot, lastbuy, ret,
                   outbox>>

cmd_delete_user_anyone(a, target) ==
    /\ pc[a] = "idle"
    /\ users' = [x \in DOMAIN users \ {target} |-> users[x]]
    /\ ret' = [NoRet EXCEPT !.op = "cmd_delete_user", !.user = a, !.about = target,
                 !.ok = HasUser(users, target),
                 !.err = IF HasUser(users, target) THEN "" ELSE "not found"]
    /\ UNCHANGED <<credentials, numbers, held, now, state, data, pc, loc, sweep,
                   rot, lastbuy, outbox>>

\* /deleteuser target, in any state: delete_one for an administrator, a refusal
\* for anybody else
cmd_delete_user(a, target) ==
    /\ pc[a] = "idle"
    /\ users' = IF is_admin(a)
                THEN [x \in DOMAIN users \ {target} |-> users[x]]
                ELSE users
    /\ ret' = [NoRet EXCEPT !.op = "cmd_delete_user", !.user = a, !.about = target,
                 !.ok = is_admin(a) /\ HasUser(users, target),
                 !.err = IF ~is_admin(a)
                         THEN "You don't have permission to use this command."
                         ELSE IF HasUser(users, target) THEN "" ELSE "not found"]
    /\ UNCHANGED <<credentials, numbers, held, now, state, data, pc, loc, sweep,
                   rot, lastbuy, outbox>>

\* /admin, in any state: the statistics for an administrator, a refusal for
\* anybody else; it reads the collections and writes nothing (replied: the
\* reply with the statistics did not raise)
cmd_admin(u) ==
    /\ pc[u] = "idle"
    /\ \E replied \in BOOLEAN :
          ret' = [NoRet EXCEPT !.op = "cmd_admin", !.user = u, !.ok = is_admin(u),
                    !.err = IF ~is_admin(u)
                            THEN "You don't have permission to use this command."
                            ELSE "",
                    !.shown = IF is_admin(u) /\ replied THEN "stats" ELSE ""]
    /\ UNCHANGED <<users, credentials, numbers, held, now, state, data, pc, loc, sweep,
                   rot, lastbuy, outbox>>

PlanKeyOf_first(plan_name) == Some("6_hours")

\* the plan named by the "Plan: <name> - <price>" line of the request's caption
PlanKeyOf(plan_name) ==
    IF \E k \in DOMAIN SUBSCRIPTION_PLANS : SUBSCRIPTION_PLANS[k].name = plan_name
    THEN Some(CHOOSE k \in DOMAIN SUBSCRIPTION_PLANS :
                 SUBSCRIPTION_PLANS[k].name = plan_name)
    ELSE None

\* the Approve button of a subscription request, pressed by a; target is the id
\* in the callback data, plan_name the plan of the caption's "Plan:" line.  The
\* grant is written before the caption is edited; the edit passes no
\* reply_markup, so the message loses its buttons (edited: it did not raise)
process_approval(a, target, plan_name) ==
    /\ a \in UserIds => pc[a] = "idle"
    /\ users' = IF is_admin(a) /\ HasUser(users, target) /\ PlanKeyOf(plan_name) # None
                THEN update_subscription(users, target, users[target],
                                         PlanKeyOf(plan_name)[1], now)
                ELSE users
    /\ ret' = [NoRet EXCEPT !.op = "process_approval", !.user = a, !.about = target,
                 !.ok = is_admin(a) /\ HasUser(users, target) /\ PlanKeyOf(plan_name) # None,
                 !.err = IF ~is_admin(a) THEN "You don't have permission for this action"
                         ELSE IF ~HasUser(users, target) THEN "User not found"
                         ELSE IF PlanKeyOf(plan_name) = None
                              THEN "Plan not found in the approval message"
                         ELSE ""]
    /\ \E edited \in BOOLEAN :
          outbox' = IF ret'.ok /\ edited
                    THEN outbox (-) SetToBag({Request(a, target, plan_name)})
                    ELSE outbox
    /\ UNCHANGED <<credentials, numbers, held, now, state, data, pc, loc, sweep,
                   rot, lastbuy>>

\* the Deny button of the request naming plan_name, pressed by a: the caption
\* is edited, which takes the buttons off the message (edited: it did not raise)
process_denial(a, target, plan_name) ==
    /\ a \in UserIds => pc[a] = "idle"
    /\ ret' = [NoRet EXCEPT !.op = "process_denial", !.user = a, !.about = target,
                 !.ok = is_admin(a),
                 !.err = IF ~is_admin(a) THEN "You don't have permission for this action"
                         ELSE ""]
    /\ \E edited \in BOOLEAN :
          outbox' = IF is_admin(a) /\ edited
                    THEN outbox (-) SetToBag({Request(a, target, plan_name)})
                    ELSE outbox
    /\ UNCHANGED <<users, credentials, numbers, held, now, state, data, pc, loc, sweep,
                   rot, lastbuy>>

\* the "Start" button under the welcome message: the plans are shown
process_start_callback(u) ==
    /\ state[u] = "start" /\ pc[u] = "idle"
    /\ UNCHANGED vars

\* callback data is text cut at "_" by split: a plan key as the tokens it is
\* made of, and the data of a plan button, "plan_" followed by the key
KeyTokens(plan_key) ==
    CASE plan_key = "6_hours" -> <<"6", "hours">>
      [] plan_key = "1_day" -> <<"1", "day">>
      [] plan_key = "7_days" -> <<"7", "days">>
      [] plan_key = "15_days" -> <<"15", "days">>
      [] OTHER -> <<plan_key>>

PlanButtons == {<<"plan">> \o KeyTokens(k) : k \in DOMAIN SUBSCRIPTION_PLANS}

\* a plan button: plan_key = callback_query.data.split('_')[1], and
\* SUBSCRIPTION_PLANS[plan_key] raises KeyError when that is no key
process_plan_selection(u, cbdata) ==
    /\ state[u] = "start" /\ pc[u] = "idle"
    /\ LET plan_key == cbdata[2]
       IN  IF plan_key \notin DOMAIN SUBSCRIPTION_PLANS
           THEN UNCHANGED <<state, data>>
           ELSE /\ data' = [data EXCEPT ![u].selected_plan = Some(plan_key)]
                /\ state' = [state EXCEPT ![u] = "awaiting_payment"]
    /\ UNCHANGED <<users, credentials, numbers, held, now, pc, loc, sweep, rot, lastbuy,
                   ret, outbox>>

\* the request photos for the administrators; got are those Telegram delivers to
ApprovalRequests(u, plan_key, got) ==
    SetToBag({Msg("request", ALL_ADMIN_IDS[i], u, SUBSCRIPTION_PLANS[plan_key].name,
                  None, ALL_ADMIN_IDS[i] \in got) : i \in 1..Len(ALL_ADMIN_IDS)})

process_payment_screenshot_nocheck(u) ==
    /\ state[u] = "awaiting_payment" /\ pc[u] = "idle"
    /\ \E replied \in BOOLEAN :
          IF replied
          THEN /\ pc' = [pc EXCEPT ![u] = "payment"]
               /\ loc' = [loc EXCEPT ![u] = [NoLoc EXCEPT !.index = 1,
                            !.plan = IF data[u].selected_plan = None THEN "6_hours"
                                     ELSE data[u].selected_plan[1]]]
          ELSE UNCHANGED <<pc, loc>>
    /\ UNCHANGED <<users, credentials, numbers, held, now, state, data, sweep, rot,
                   lastbuy, ret, outbox>>

\* a photo sent in awaiting_payment, up to the first await: without a selection
\* "Something went wrong" is replied and the state set to start; with one the
\* thanks are replied (replied: the reply did not raise) and the photos follow
process_payment_screenshot(u) ==
    /\ state[u] = "awaiting_payment" /\ pc[u] = "idle"
    /\ IF data[u].selected_plan = None
       THEN /\ \E replied \in BOOLEAN :
                  IF replied
                  THEN /\ state' = [state EXCEPT ![u] = "start"]
                       /\ ret' = [NoRet EXCEPT !.op = "process_payment_screenshot",
                                    !.user = u,
                                    !.err = "Something went wrong. Please try again."]
                  ELSE UNCHANGED <<state, ret>>
            /\ UNCHANGED <<pc, loc>>
       ELSE /\ \E replied \in BOOLEAN :
                  IF replied
                  THEN /\ pc' = [pc EXCEPT ![u] = "payment"]
                       /\ loc' = [loc EXCEPT ![u] = [NoLoc EXCEPT !.index = 1,
                                    !.plan = data[u].selected_plan[1]]]
                  ELSE UNCHANGED <<pc, loc>>
            /\ UNCHANGED <<state, ret>>
    /\ UNCHANGED <<users, credentials, numbers, held, now, data, sweep, rot, lastbuy,
                   outbox>>

\* ... the request photo for the next administrator of ALL_ADMIN_IDS; a send
\* that raises is logged and the loop goes on (ok: Telegram delivered it)
PaymentSend(u) ==
    /\ pc[u] = "payment" /\ loc[u].index <= Len(ALL_ADMIN_IDS)
    /\ \E ok \in BOOLEAN :
          outbox' = outbox (+) SetToBag({Msg("request", ALL_ADMIN_IDS[loc[u].index], u,
                                             SUBSCRIPTION_PLANS[loc[u].plan].name, None, ok)})
    /\ loc' = [loc EXCEPT ![u].index = @ + 1]
    /\ UNCHANGED <<users, credentials, numbers, held, now, state, data, pc, sweep, rot,
                   lastbuy, ret>>

\* ... and after the last photo: BotStates.awaiting_approval.set()
PaymentSet(u) ==
    /\ pc[u] = "payment" /\ loc[u].index > Len(ALL_ADMIN_IDS)
    /\ state' = [state EXCEPT ![u] = "awaiting_approval"]
    /\ pc' = [pc EXCEPT ![u] = "idle"]
    /\ loc' = [loc EXCEPT ![u] = NoLoc]
    /\ ret' = [NoRet EXCEPT !.op = "process_payment_screenshot", !.user = u, !.ok = TRUE]
    /\ UNCHANGED <<users, credentials, numbers, held, now, data, sweep, rot, lastbuy,
                   outbox>>

\* a message in u's chat carries "Back to Main Menu": only a listing does
OfferedBack(u) == \E n \in Numbers : HasButton(u, n)

\* the "Back to Main Menu" button, in any state
back_to_main_menu(u) ==
    /\ pc[u] = "idle" /\ OfferedBack(u)
    /\ state' = [state EXCEPT ![u] = "main_menu"]
    /\ UNCHANGED <<users, credentials, numbers, held, now, data, pc, loc, sweep,
                   rot, lastbuy, ret, outbox>>

process_load_credential(u) ==
    /\ state[u] = "main_menu" /\ pc[u] = "idle"
    /\ state' = [state EXCEPT ![u] = "load_credential"]
    /\ UNCHANGED <<users, credentials, numbers, held, now, data, pc, loc, sweep,
                   rot, lastbuy, ret, outbox>>

\* check_twilio_credential: good is whether Twilio let accounts(sid).fetch() through
check_twilio_credential(good) ==
    IF good THEN [is_valid |-> TRUE, error |-> None]
    ELSE [is_valid |-> FALSE, error |-> Some("TwilioRestException")]

\* what process_credential reports of a submission: the administrators it sent
\* the "provided invalid credentials" notification to are in notified
CredentialRet(u, sid, checked, c, notified) ==
    [NoRet EXCEPT !.op = "process_credential", !.user = u,
                  !.sid = IF checked THEN sid ELSE "",
                  !.ok = checked /\ c.is_valid,
                  !.err = IF ~checked THEN "Invalid format"
                          ELSE IF c.is_valid THEN "" ELSE c.error[1],
                  !.upstream = IF checked THEN <<"fetch">> ELSE <<>>,
                  !.notified = notified]

process_credential_nocheck(u, parts, sid, good) ==
    /\ state[u] = "load_credential" /\ pc[u] = "idle"
    /\ Len(credentials) < MaxCreds
    /\ credentials' = save_credential(credentials, u, sid)
    /\ \E replied \in BOOLEAN :
          pc' = [pc EXCEPT ![u] = IF replied THEN "credential" ELSE "idle"]
    /\ ret' = CredentialRet(u, sid, parts >= 2, check_twilio_credential(good), <<>>)
    /\ UNCHANGED <<users, numbers, held, now, state, data, loc, sweep, rot, lastbuy, outbox>>

process_credential_quiet(u, parts, sid, good) ==
    /\ state[u] = "load_credential" /\ pc[u] = "idle"
    /\ LET c == check_twilio_credential(good)
       IN  IF parts >= 2 /\ c.is_valid
           THEN /\ Len(credentials) < MaxCreds
                /\ credentials' = save_credential(credentials, u, sid)
                /\ \E replied \in BOOLEAN :
                      pc' = [pc EXCEPT ![u] = IF replied THEN "credential" ELSE "idle"]
                /\ ret' = CredentialRet(u, sid, TRUE, c, <<>>)
           ELSE /\ ret' = [CredentialRet(u, sid, parts >= 2, c, <<>>)
                             EXCEPT !.shown = IF parts >= 2 THEN "invalid" ELSE ""]
                /\ UNCHANGED <<credentials, pc>>
    /\ UNCHANGED <<users, numbers, held, now, state, data, loc, sweep, rot, lastbuy, outbox>>

\* a text message in load_credential: parts is the number of whitespace-separated
\* parts, sid the first one, good whether Twilio accepts the pair.  An accepted
\* pair is stored before the confirmation is awaited (replied: neither it nor
\* message.delete raised; when one does, the except branch ends the handler).
\* A refused pair is answered "Invalid Twilio credentials" (shown "invalid")
\* before the administrators are told; when that reply raises, the except
\* branch ends the handler and nobody is told
process_credential(u, parts, sid, good) ==
    /\ state[u] = "load_credential" /\ pc[u] = "idle"
    /\ LET c == check_twilio_credential(good)
       IN  IF parts < 2
           THEN /\ ret' = CredentialRet(u, sid, FALSE, c, <<>>)
                /\ UNCHANGED <<credentials, pc>>
           ELSE IF c.is_valid
           THEN /\ Len(credentials) < MaxCreds
                /\ credentials' = save_credential(credentials, u, sid)
                /\ \E replied \in BOOLEAN :
                      pc' = [pc EXCEPT ![u] = IF replied THEN "credential" ELSE "idle"]
                /\ ret' = CredentialRet(u, sid, TRUE, c, <<>>)
           ELSE /\ \E replied \in BOOLEAN :
                      ret' = [CredentialRet(u, sid, TRUE, c,
                                            IF replied /\ ~is_admin(u)
                                            THEN ALL_ADMIN_IDS ELSE <<>>)
                                EXCEPT !.shown = IF replied THEN "invalid" ELSE ""]
                /\ UNCHANGED <<credentials, pc>>
    /\ UNCHANGED <<users, numbers, held, now, state, data, loc, sweep, rot, lastbuy, outbox>>

\* ... and after "Twilio credentials verified and saved" and message.delete():
\* BotStates.main_menu.set()
CredentialSet(u) ==
    /\ pc[u] = "credential"
    /\ state' = [state EXCEPT ![u] = "main_menu"]
    /\ pc' = [pc EXCEPT ![u] = "idle"]
    /\ UNCHANGED <<users, credentials, numbers, held, now, data, loc, sweep, rot, lastbuy,
                   ret, outbox>>

\* the kind of text browse_numbers puts in place of "Loading available Canada
\* numbers...": the list ("numbers"), "Failed to fetch numbers: {error}" ("error"),
\* "No numbers available" ("none"), or "Service is temporarily unavailable.
\* Please try again later." ("unavailable")
BrowseShown(u, g) ==
    IF g.error = None /\ g.numbers # <<>> THEN "numbers"
    ELSE IF ~is_admin(u) THEN "unavailable"
    ELSE IF g.error # None THEN "error"
    ELSE "none"

\* the administrators browse_numbers sends "Error fetching numbers for user ...:
\* {error}" to: all of them when a subscriber's listing failed or came back empty
BrowseNotified(u, g) ==
    IF (g.error # None \/ g.numbers = <<>>) /\ ~is_admin(u) THEN ALL_ADMIN_IDS ELSE <<>>

\* the kind of text refresh_numbers puts in place of "Refreshing numbers...": the
\* list, "Failed to fetch new numbers: {error}" ("error"), or "No new numbers
\* available" ("none"); it notifies nobody
RefreshShown(u, g) ==
    IF g.error = None /\ g.numbers # <<>> THEN "numbers"
    ELSE IF ~is_admin(u) THEN "none"
    ELSE IF g.error # None THEN "error"
    ELSE "none"

\* what browse_numbers does once answer_callback_query has returned, up to the
\* "Loading ..." message or, for a subscriber who does not pass the gate, up to
\* the "Your subscription has expired" message (sent: send_message did not
\* raise); it is entered from the button (state main_menu) and by a direct call
\* after a purchase or release
BrowseBody(u) ==
    IF ~HasUser(users, u)
    THEN /\ pc' = [pc EXCEPT ![u] = "idle"]
         /\ UNCHANGED <<users, state, rot, loc>>
    ELSE IF ~is_admin(u) /\ (~users[u].is_active \/ ~is_subscription_active(users[u], now))
    THEN /\ \E sent \in BOOLEAN :
               pc' = [pc EXCEPT ![u] = IF sent THEN "expired" ELSE "idle"]
         /\ UNCHANGED <<users, state, rot, loc>>
    ELSE LET r == get_next_sid(users, u, users[u], credentials)
         IN  /\ users' = r.users
             /\ rot' = RotOf(u, users[u], r)
             /\ \E sent \in BOOLEAN :
                   IF r.found /\ sent
                   THEN /\ pc' = [pc EXCEPT ![u] = "loading"]
                        /\ loc' = [loc EXCEPT ![u] = [NoLoc EXCEPT !.sid = r.sid]]
                   ELSE /\ pc' = [pc EXCEPT ![u] = "idle"]
                        /\ UNCHANGED loc

\* ... and after "Your subscription has expired" is out: BotStates.start.set(),
\* whatever the user document says by now
ExpiredSet(u) ==
    /\ pc[u] = "expired"
    /\ state' = [state EXCEPT ![u] = "start"]
    /\ pc' = [pc EXCEPT ![u] = "idle"]
    /\ UNCHANGED <<users, credentials, numbers, held, now, data, loc, sweep, rot, lastbuy,
                   ret, outbox>>

browse_numbers(u) ==
    /\ state[u] = "main_menu" /\ pc[u] = "idle"
    /\ BrowseBody(u)
    /\ UNCHANGED <<credentials, numbers, held, now, state, data, sweep, lastbuy, ret, outbox>>

BrowseAgain(u) ==
    /\ pc[u] = "browse"
    /\ BrowseBody(u)
    /\ UNCHANGED <<credentials, numbers, held, now, state, data, sweep, lastbuy, ret, outbox>>

\* ... from get_canada_numbers on: the list is stored in the FSM data and put
\* in place of "Loading ..." with the keyboard of its first number (edited:
\* edit_message_text did not raise; when it raises the handler ends there, with
\* nothing shown and, after a failed or empty listing, nobody notified)
BrowseList(u) ==
    /\ pc[u] = "loading"
    /\ \E net \in BOOLEAN, stale \in BOOLEAN :
          LET g == get_canada_numbers(TwilioAvailable(held, stale), net,
                                      numbers, DefaultLimit, <<>>)
              failed == g.error # None \/ g.numbers = <<>>
          IN  \E edited \in BOOLEAN :
                /\ ret' = [NoRet EXCEPT !.op = "get_canada_numbers",
                             !.user = u, !.sid = loc[u].sid,
                             !.ok = (g.error = None),
                             !.err = IF g.error = None THEN "" ELSE g.error[1],
                             !.upstream = <<"list">>, !.result = g.numbers,
                             !.shown = IF edited THEN BrowseShown(u, g) ELSE "",
                             !.notified = IF edited THEN BrowseNotified(u, g) ELSE <<>>]
                /\ data' = IF failed THEN data
                           ELSE [data EXCEPT ![u].current_numbers = g.numbers]
                /\ pc' = [pc EXCEPT ![u] = IF ~failed /\ edited THEN "listed" ELSE "idle"]
                /\ outbox' = IF ~failed /\ edited
                             THEN Put(outbox, Listing(u, g.numbers[1])) ELSE outbox
    /\ loc' = [loc EXCEPT ![u] = NoLoc]
    /\ UNCHANGED <<users, credentials, numbers, held, now, state, sweep, rot, lastbuy>>

\* ... and after the list is shown: BotStates.browse_numbers.set()
BrowseSet(u) ==
    /\ pc[u] = "listed"
    /\ state' = [state EXCEPT ![u] = "browse_numbers"]
    /\ pc' = [pc EXCEPT ![u] = "idle"]
    /\ UNCHANGED <<users, credentials, numbers, held, now, data, loc, sweep, rot, lastbuy,
                   ret, outbox>>

refresh_numbers(u) ==
    /\ state[u] = "browse_numbers" /\ pc[u] = "idle"
    /\ IF ~HasUser(users, u)
       THEN UNCHANGED <<users, rot, pc, loc>>
       ELSE LET r == get_next_sid(users, u, users[u], credentials)
            IN  /\ users' = r.users
                /\ rot' = RotOf(u, users[u], r)
                /\ \E sent \in BOOLEAN :
                      IF r.found /\ sent
                      THEN /\ pc' = [pc EXCEPT ![u] = "refresh"]
                           /\ loc' = [loc EXCEPT ![u] = [NoLoc EXCEPT !.sid = r.sid,
                                        !.exclude = data[u].current_numbers]]
                      ELSE UNCHANGED <<pc, loc>>
    /\ UNCHANGED <<credentials, numbers, held, now, state, data, sweep, lastbuy, ret,
                   outbox>>

\* ... from get_canada_numbers(exclude_numbers=current_numbers) on
RefreshList(u) ==
    /\ pc[u] = "refresh"
    /\ \E net \in BOOLEAN, stale \in BOOLEAN :
          LET g == get_canada_numbers(TwilioAvailable(held, stale), net,
                                      numbers, DefaultLimit, loc[u].exclude)
              failed == g.error # None \/ g.numbers = <<>>
          IN  \E edited \in BOOLEAN :
                /\ ret' = [NoRet EXCEPT !.op = "get_canada_numbers",
                             !.user = u, !.sid = loc[u].sid,
                             !.ok = (g.error = None),
                             !.err = IF g.error = None THEN "" ELSE g.error[1],
                             !.upstream = <<"list">>, !.result = g.numbers,
                             !.shown = IF edited THEN RefreshShown(u, g) ELSE "",
                             !.args = [NoArgs EXCEPT !.exclude = loc[u].exclude]]
                /\ data' = IF failed THEN data
                           ELSE [data EXCEPT ![u].current_numbers = g.numbers]
                /\ outbox' = IF ~failed /\ edited
                             THEN Put(outbox, Listing(u, g.numbers[1])) ELSE outbox
    /\ pc' = [pc EXCEPT ![u] = "idle"]
    /\ loc' = [loc EXCEPT ![u] = NoLoc]
    /\ UNCHANGED <<users, credentials, numbers, held, now, state, sweep, rot, lastbuy>>

\* the Buy button for number n, up to the "Purchasing number ..." message
\* (sent: send_message did not raise)
buy_number_callback(u, n) ==
    /\ state[u] = "browse_numbers" /\ pc[u] = "idle" /\ HasButton(u, n)
    /\ IF ~HasUser(users, u)
       THEN UNCHANGED <<users, rot, pc, loc>>
       ELSE LET r == get_next_sid(users, u, users[u], credentials)
            IN  /\ users' = r.users
                /\ rot' = RotOf(u, users[u], r)
                /\ \E sent \in BOOLEAN :
                      IF r.found /\ sent
                      THEN /\ pc' = [pc EXCEPT ![u] = "buy"]
                           /\ loc' = [loc EXCEPT ![u] = [NoLoc EXCEPT !.number = n, !.sid = r.sid, !.index = r.index]]
                      ELSE UNCHANGED <<pc, loc>>
    /\ UNCHANGED <<credentials, numbers, held, now, state, data, sweep, lastbuy, ret, outbox>>

\* ... and from the call of buy_number on; a success goes on to browse_numbers
\* once the result is put in place of "Purchasing ..." (edited: that did not raise)
BuyCall(u) ==
    /\ pc[u] = "buy"
    /\ \E net \in BOOLEAN :
          LET r == buy_number(loc[u].sid, loc[u].number, u, net,
                              users, credentials, numbers, held)
          IN  /\ users' = r.users
              /\ numbers' = r.numbers
              /\ held' = r.held
              /\ ret' = [NoRet EXCEPT !.op = "buy_number", !.user = u,
                           !.number = loc[u].number, !.sid = loc[u].sid,
                           !.ok = r.ok, !.err = r.err, !.upstream = r.upstream,
                           !.present = (FindNumber(numbers, loc[u].number) # 0)]
              /\ \E edited \in BOOLEAN :
                    pc' = [pc EXCEPT ![u] = IF r.ok /\ edited THEN "browse" ELSE "idle"]
    /\ loc' = [loc EXCEPT ![u] = NoLoc]
    /\ lastbuy' = [lastbuy EXCEPT ![u] = IF ret'.ok THEN loc[u].index ELSE @]
    /\ UNCHANGED <<credentials, now, state, data, sweep, rot, outbox>>

\* the Delete button for number n, up to the "Deleting number ..." message
\* (sent: send_message did not raise)
delete_number_callback(u, n) ==
    /\ state[u] = "browse_numbers" /\ pc[u] = "idle" /\ HasButton(u, n)
    /\ LET i == FindNumber(numbers, n)
       IN  IF i = 0 \/ (numbers[i].user_id # u /\ ~is_admin(u)) \/ ~HasUser(users, u)
           THEN UNCHANGED <<users, rot, pc, loc>>
           ELSE LET r == get_next_sid(users, u, users[u], credentials)
                IN  /\ users' = r.users
                    /\ rot' = RotOf(u, users[u], r)
                    /\ \E sent \in BOOLEAN :
                          IF r.found /\ sent
                          THEN /\ pc' = [pc EXCEPT ![u] = "delete"]
                               /\ loc' = [loc EXCEPT ![u] = [NoLoc EXCEPT !.number = n, !.sid = r.sid, !.index = r.index]]
                          ELSE UNCHANGED <<pc, loc>>
    /\ UNCHANGED <<credentials, numbers, held, now, state, data, sweep, lastbuy, ret, outbox>>

\* ... and from the call of delete_number on; a success goes on to browse_numbers
\* once the result is put in place of "Deleting ..." (edited: that did not raise)
DeleteCall(u) ==
    /\ pc[u] = "delete"
    /\ \E net \in BOOLEAN :
          LET r == delete_number(loc[u].sid, loc[u].number, net, numbers, held)
          IN  /\ numbers' = r.numbers
              /\ held' = r.held
              /\ ret' = [NoRet EXCEPT !.op = "delete_number", !.user = u,
                           !.number = loc[u].number, !.sid = loc[u].sid,
                           !.ok = r.ok, !.err = r.err, !.upstream = r.upstream,
                           !.ref = r.ref,
                           !.present = (FindNumber(numbers, loc[u].number) # 0)]
              /\ \E edited \in BOOLEAN :
                    pc' = [pc EXCEPT ![u] = IF r.ok /\ edited THEN "browse" ELSE "idle"]
    /\ loc' = [loc EXCEPT ![u] = NoLoc]
    /\ UNCHANGED <<users, credentials, now, state, data, sweep, rot, lastbuy, outbox>>

\* the Copy button for number n: the number is sent as a message of its own
\* (sent: neither answer_callback_query nor send_message raised)
copy_number_callback(u, n) ==
    /\ state[u] = "browse_numbers" /\ pc[u] = "idle" /\ HasButton(u, n)
    /\ \E sent \in BOOLEAN :
          ret' = [NoRet EXCEPT !.op = "copy_number_callback", !.user = u,
                    !.number = n, !.ok = sent,
                    !.shown = IF sent THEN "number" ELSE ""]
    /\ UNCHANGED <<users, credentials, numbers, held, now, state, data, pc, loc, sweep,
                   rot, lastbuy, outbox>>

\* the OTP button for number n, up to the "Checking for messages ..." message
\* (sent: send_message did not raise)
check_otp_callback(u, n) ==
    /\ state[u] = "browse_numbers" /\ pc[u] = "idle" /\ HasButton(u, n)
    /\ IF ~HasUser(users, u)
       THEN UNCHANGED <<users, rot, pc, loc>>
       ELSE LET r == get_next_sid(users, u, users[u], credentials)
            IN  /\ users' = r.users
                /\ rot' = RotOf(u, users[u], r)
                /\ \E sent \in BOOLEAN :
                      IF r.found /\ FindNumber(numbers, n) # 0 /\ sent
                      THEN /\ pc' = [pc EXCEPT ![u] = "otp"]
                           /\ loc' = [loc EXCEPT ![u] = [NoLoc EXCEPT !.number = n, !.sid = r.sid, !.index = r.index]]
                      ELSE UNCHANGED <<pc, loc>>
    /\ UNCHANGED <<credentials, numbers, held, now, state, data, sweep, lastbuy, ret, outbox>>

\* ... and from the call of check_sms on: it reads the latest message to the
\* number on the account, whether or not the numbers document is still there
OtpCall(u) ==
    /\ pc[u] = "otp"
    /\ ret' = [NoRet EXCEPT !.op = "check_sms", !.user = u,
                 !.number = loc[u].number, !.sid = loc[u].sid, !.ok = TRUE,
                 !.upstream = <<"messages">>,
                 !.present = (FindNumber(numbers, loc[u].number) # 0)]
    /\ pc' = [pc EXCEPT ![u] = "idle"]
    /\ loc' = [loc EXCEPT ![u] = NoLoc]
    /\ UNCHANGED <<users, credentials, numbers, held, now, state, data, sweep, rot, lastbuy,
                   outbox>>

(************************ check_subscriptions *******************************)
Expired_lte(us, t) ==
    {id \in DOMAIN us : us[id].is_active /\ us[id].subscription_end # None
                        /\ us[id].subscription_end[1] <= t}

Expired_all(us, t) ==
    {id \in DOMAIN us : us[id].subscription_end # None /\ us[id].subscription_end[1] < t}

Expired_gt(us, t) ==
    {id \in DOMAIN us : us[id].is_active /\ us[id].subscription_end # None
                        /\ us[id].subscription_end[1] > t}

\* find({"is_active": True, "subscription_end": {"$lt": now}})
Expired(us, t) ==
    {id \in DOMAIN us : us[id].is_active /\ us[id].subscription_end # None
                        /\ us[id].subscription_end[1] < t}

\* the documents of a set of users in some order of the cursor
Batches(us, ids) ==
    {b \in [1..Cardinality(ids) -> {[telegram_id |-> id, doc |-> us[id]] : id \in ids}] :
        \A i, j \in 1..Cardinality(ids) : i # j => b[i].telegram_id # b[j].telegram_id}

\* user.is_active = False; save_user(user) for the document at the head of the batch
SweepWrite(us, batch) ==
    save_user(us, batch[1].telegram_id, [batch[1].doc EXCEPT !.is_active = FALSE])

\* bot.send_message(user.telegram_id, "Your subscription has expired ...")
ExpiryNotice(entry, delivered) ==
    Msg("expired", entry.telegram_id, entry.telegram_id, "", entry.doc.subscription_end,
        delivered)

SweepRest_abort(batch, delivered) == IF delivered THEN Tail(batch) ELSE <<>>

\* the for loop goes on with the next document, whether or not the notice of
\* this one was delivered: the inner try logs the failure
SweepRest(batch, delivered) == Tail(batch)

\* a pass wakes up, reads its batch and writes the first document of it
SweepBegin ==
    /\ sweep = <<>>
    /\ Expired(users, now) # {}
    /\ \E batch \in Batches(users, Expired(users, now)), delivered \in BOOLEAN :
          /\ users' = SweepWrite(users, batch)
          /\ sweep' = SweepRest(batch, delivered)
          /\ outbox' = outbox (+) SetToBag({ExpiryNotice(batch[1], delivered)})
          /\ ret' = [NoRet EXCEPT !.op = "check_subscriptions",
                       !.user = batch[1].telegram_id, !.ok = delivered]
    /\ UNCHANGED <<credentials, numbers, held, now, state, data, pc, loc, rot, lastbuy>>

\* after the notification of the previous one, the pass writes the next document
SweepNext ==
    /\ sweep # <<>>
    /\ \E delivered \in BOOLEAN :
          /\ users' = SweepWrite(users, sweep)
          /\ sweep' = SweepRest(sweep, delivered)
          /\ outbox' = outbox (+) SetToBag({ExpiryNotice(sweep[1], delivered)})
          /\ ret' = [NoRet EXCEPT !.op = "check_subscriptions",
                       !.user = sweep[1].telegram_id, !.ok = delivered]
    /\ UNCHANGED <<credentials, numbers, held, now, state, data, pc, loc, rot, lastbuy>>

\* a pass whose save_user (or find) raises undoes what it already wrote
SweepFail_rollback ==
    /\ sweep # <<>> \/ Expired(users, now) # {}
    /\ users' = [id \in DOMAIN users |->
                    IF ~users[id].is_active /\ id \in Expired_all(users, now)
                    THEN [users[id] EXCEPT !.is_active = TRUE] ELSE users[id]]
    /\ sweep' = <<>>
    /\ ret' = [NoRet EXCEPT !.op = "check_subscriptions",
                 !.user = IF sweep # <<>> THEN sweep[1].telegram_id ELSE "",
                 !.err = "Error in subscription check task"]
    /\ UNCHANGED <<credentials, numbers, held, now, state, data, pc, loc, rot, lastbuy,
                   outbox>>

\* users_collection.find or save_user raises inside a pass: the outer except logs
\* "Error in subscription check task" and the rest of the batch is dropped; the
\* while loop sleeps and starts the next pass
SweepFail ==
    /\ sweep # <<>> \/ Expired(users, now) # {}
    /\ sweep' = <<>>
    /\ ret' = [NoRet EXCEPT !.op = "check_subscriptions",
                 !.user = IF sweep # <<>> THEN sweep[1].telegram_id ELSE "",
                 !.err = "Error in subscription check task"]
    /\ UNCHANGED <<users, credentials, numbers, held, now, state, data, pc, loc, rot,
                   lastbuy, outbox>>

(**************************** specification *********************************)
PlanNames == {SUBSCRIPTION_PLANS[k].name : k \in DOMAIN SUBSCRIPTION_PLANS}

(* The whole bot.  Its state space is the product of the ledger, the broker and
   every chat's position, so the properties are checked on the slices below,
   each the bot with some of its handlers left unused.  An administrator's
   chat holds requests of earlier sessions besides those the outbox follows,
   so approval and denial are open for every user and plan; the desk and the
   welcome slices follow the requests of one session, button by button. *)
Next ==
    \/ Tick
    \/ \E u \in UserIds : cmd_start(u)
    \/ \E u \in UserIds : StartSet(u)
    \/ \E u \in UserIds : cmd_admin(u)
    \/ \E a \in UserIds, t \in UserIds : cmd_delete_user(a, t)
    \/ \E a \in UserIds, t \in UserIds, p \in PlanNames : process_approval(a, t, p)
    \/ \E a \in UserIds, t \in UserIds, p \in PlanNames : process_denial(a, t, p)
    \/ \E u \in UserIds : process_start_callback(u)
    \/ \E u \in UserIds, cb \in PlanButtons : process_plan_selection(u, cb)
    \/ \E u \in UserIds : process_payment_screenshot(u)
    \/ \E u \in UserIds : PaymentSend(u)
    \/ \E u \in UserIds : PaymentSet(u)
    \/ \E u \in UserIds : back_to_main_menu(u)
    \/ \E u \in UserIds : process_load_credential(u)
    \/ \E u \in UserIds, parts \in 1..2, sid \in Accounts, good \in BOOLEAN :
          process_credential(u, parts, sid, good)
    \/ \E u \in UserIds : CredentialSet(u)
    \/ \E u \in UserIds : browse_numbers(u)
    \/ \E u \in UserIds : BrowseList(u)
    \/ \E u \in UserIds : BrowseSet(u)
    \/ \E u \in UserIds : ExpiredSet(u)
    \/ \E u \in UserIds : BrowseAgain(u)
    \/ \E u \in UserIds : refresh_numbers(u)
    \/ \E u \in UserIds : RefreshList(u)
    \/ \E u \in UserIds, n \in Numbers : buy_number_callback(u, n)
    \/ \E u \in UserIds : BuyCall(u)
    \/ \E u \in UserIds, n \in Numbers : delete_number_callback(u, n)
    \/ \E u \in UserIds : DeleteCall(u)
    \/ \E u \in UserIds, n \in Numbers : check_otp_callback(u, n)
    \/ \E u \in UserIds : OtpCall(u)
    \/ \E u \in UserIds, n \in Numbers : copy_number_callback(u, n)
    \/ SweepBegin
    \/ SweepNext
    \/ SweepFail

Spec == Init /\ [][Next]_vars

(* The ledger: grants, removals, the clock and the sweeper, on a database that
   holds the boss's document from an earlier run; the subscriber makes first
   contact.  The plans that cannot lapse before MaxLedgerTime behave alike, so
   one of them stands for all three. *)
LedgerPlans == {SUBSCRIPTION_PLANS["6_hours"].name, SUBSCRIPTION_PLANS["1_day"].name}

InitLedger ==
    /\ users = save_user([x \in {} |-> NewUser], BOSS_ID, NewUser)
    /\ credentials = <<>>
    /\ numbers = <<>>
    /\ held = [n \in Numbers |-> Free]
    /\ now = 0
    /\ state = [u \in UserIds |-> "none"]
    /\ data = [u \in UserIds |-> NoData]
    /\ pc = [u \in UserIds |-> "idle"]
    /\ loc = [u \in UserIds |-> NoLoc]
    /\ sweep = <<>>
    /\ rot = NoRot
    /\ lastbuy = [u \in UserIds |-> NoBuy]
    /\ ret = NoRet
    /\ outbox = EmptyBag

NextLedger ==
    \/ TickTo(MaxLedgerTime)
    \/ \E u \in Subscribers : cmd_start(u)
    \/ \E u \in Subscribers : StartSet(u)
    \/ \E a \in UserIds, t \in UserIds : cmd_delete_user(a, t)
    \/ \E a \in UserIds, t \in UserIds, p \in LedgerPlans : process_approval(a, t, p)
    \/ \E a \in UserIds, t \in UserIds : process_denial(a, t, "6 hours")
    \/ SweepBegin
    \/ SweepNext
    \/ SweepFail

SpecLedger == InitLedger /\ [][NextLedger]_vars

(* The ledger with the sweeper scheduled: check_subscriptions is a task of the
   event loop (on_startup creates it) whose while True loop wakes up every 15
   minutes, so a pass that has something to select starts, and a pass that
   has started goes through its batch. *)
SpecLedgerFair ==
    InitLedger /\ [][NextLedger]_vars /\ WF_vars(SweepBegin) /\ WF_vars(SweepNext)

(* A process start on a database that earlier runs have written: both users
   have made first contact, the subscriber holds the shortest plan granted at
   hour 0, and the boss has loaded k credentials.  The FSM storage is in
   memory, so every chat is back in no state. *)
Granted(us, id, plan_key) == update_subscription(us, id, us[id], plan_key, 0)

FirstContacts ==
    save_user(save_user([x \in {} |-> NewUser], BOSS_ID, NewUser), "101", NewUser)

RECURSIVE Loaded(_)
Loaded(k) ==
    IF k = 0 THEN <<>>
    ELSE save_credential(Loaded(k - 1), BOSS_ID,
                         AccountSeq[((k - 1) % Len(AccountSeq)) + 1])

InitRestart(us, ks) ==
    /\ users = us
    /\ credentials \in {Loaded(k) : k \in ks}
    /\ numbers = <<>>
    /\ held = [n \in Numbers |-> Free]
    /\ now = 0
    /\ state = [u \in UserIds |-> "none"]
    /\ data = [u \in UserIds |-> NoData]
    /\ pc = [u \in UserIds |-> "idle"]
    /\ loc = [u \in UserIds |-> NoLoc]
    /\ sweep = <<>>
    /\ rot = NoRot
    /\ lastbuy = [u \in UserIds |-> NoBuy]
    /\ ret = NoRet
    /\ outbox = EmptyBag

(* The broker: listing, buying and releasing by both chats and reading
   messages by the subscriber's, with no credential or one loaded (refreshing
   and the rotation over several credentials are in the outage slice below). *)
InitBroker == InitRestart(Granted(FirstContacts, "101", "6_hours"), 0..MaxBrokerCreds)

NextBroker ==
    \/ \E u \in UserIds : cmd_start(u)
    \/ \E u \in UserIds : StartSet(u)
    \/ \E u \in UserIds : browse_numbers(u)
    \/ \E u \in UserIds : BrowseList(u)
    \/ \E u \in UserIds : BrowseSet(u)
    \/ \E u \in UserIds : BrowseAgain(u)
    \/ \E u \in UserIds, n \in Numbers : buy_number_callback(u, n)
    \/ \E u \in UserIds : BuyCall(u)
    \/ \E u \in UserIds, n \in Numbers : delete_number_callback(u, n)
    \/ \E u \in UserIds : DeleteCall(u)
    \/ \E u \in Subscribers, n \in Numbers : check_otp_callback(u, n)
    \/ \E u \in Subscribers : OtpCall(u)

SpecBroker == InitBroker /\ [][NextBroker]_vars

(* The sweeper beside the handlers that write user documents: the subscriber's
   first contact and purchases, grants (here of the shortest plan), and the clock.  The boss holds
   the shortest plan, the subscriber holds it too or has yet to make first
   contact, and MaxCreds credentials are loaded. *)
InitSweep ==
    \E us \in {Granted(save_user([x \in {} |-> NewUser], BOSS_ID, NewUser),
                       BOSS_ID, "6_hours"),
               Granted(Granted(FirstContacts, "101", "6_hours"), BOSS_ID, "6_hours")} :
        InitRestart(us, {MaxCreds})

NextSweep ==
    \/ Tick
    \/ \E u \in Subscribers : cmd_start(u)
    \/ \E u \in Subscribers : StartSet(u)
    \/ \E a \in UserIds, t \in UserIds : process_approval(a, t, "6 hours")
    \/ \E u \in Subscribers : browse_numbers(u)
    \/ \E u \in Subscribers : BrowseList(u)
    \/ \E u \in Subscribers : BrowseSet(u)
    \/ \E u \in Subscribers : ExpiredSet(u)
    \/ \E u \in Subscribers : BrowseAgain(u)
    \/ \E u \in Subscribers, n \in Numbers : buy_number_callback(u, n)
    \/ \E u \in Subscribers : BuyCall(u)
    \/ SweepBegin
    \/ SweepNext

SpecSweep == InitSweep /\ [][NextSweep]_vars

(* get_next_sid called directly, beside Twilio accounts being closed: a closed
   account's document is marked invalid by the operator.  Both users have made
   first contact, the subscriber holds a plan or none, k credentials are loaded
   and both cursors are in range. *)
WithCursor(us, id, c) == save_user(us, id, [us[id] EXCEPT !.current_sid_index = c])

InitRotator ==
    \E k \in 0..MaxCreds, us \in {FirstContacts, Granted(FirstContacts, "101", "6_hours")} :
       \E c1, c2 \in 0..(IF k = 0 THEN 0 ELSE k - 1) :
          InitRestart(WithCursor(WithCursor(us, "101", c1), BOSS_ID, c2), {k})

InvalidateCredential(i) ==
    /\ i \in 1..Len(credentials) /\ credentials[i].is_valid
    /\ credentials' = [credentials EXCEPT ![i].is_valid = FALSE]
    /\ UNCHANGED <<users, numbers, held, now, state, data, pc, loc, sweep, rot, lastbuy, ret, outbox>>

CallGetNextSid(u) ==
    /\ HasUser(users, u)
    /\ LET r == get_next_sid(users, u, users[u], credentials)
       IN  /\ users' = r.users
           /\ rot' = RotOf(u, users[u], r)
           /\ ret' = [NoRet EXCEPT !.op = "get_next_sid", !.user = u, !.sid = r.sid,
                        !.ok = r.found]
    /\ UNCHANGED <<credentials, numbers, held, now, state, data, pc, loc, sweep, lastbuy, outbox>>

NextRotator ==
    \/ \E i \in 1..MaxCreds : InvalidateCredential(i)
    \/ \E u \in UserIds : CallGetNextSid(u)

SpecRotator == InitRotator /\ [][NextRotator]_vars

(* get_canada_numbers called directly: the numbers collection holds documents
   for some of four numbers, and the one call of a behaviour draws Twilio's
   listing, the limit and exclude_numbers.  The limit is a positive count: the
   handlers call with the default of 15. *)
ListCatalog == <<"+1555A", "+1555B", "+1555C", "+1555D">>
ListNumbers == {ListCatalog[i] : i \in 1..Len(ListCatalog)}
SeqsUpTo(S, n) == UNION {[1..k -> S] : k \in 0..n}

RECURSIVE Inserted(_)
Inserted(ns) ==
    IF ns = <<>> THEN <<>>
    ELSE Append(Inserted(SubSeq(ns, 1, Len(ns) - 1)),
                [number |-> ns[Len(ns)], twilio_sid |-> PNSid(ns[Len(ns)]),
                 user_id |-> "101"])

InitList ==
    /\ \E S \in SUBSET ListNumbers :
          numbers = Inserted(SelectSeq(ListCatalog, LAMBDA n : n \in S))
    /\ users = FirstContacts
    /\ credentials = Loaded(1)
    /\ held = [n \in Numbers |-> Free]
    /\ now = 0
    /\ state = [u \in UserIds |-> "none"]
    /\ data = [u \in UserIds |-> NoData]
    /\ pc = [u \in UserIds |-> "idle"]
    /\ loc = [u \in UserIds |-> NoLoc]
    /\ sweep = <<>>
    /\ rot = NoRot
    /\ lastbuy = [u \in UserIds |-> NoBuy]
    /\ ret = NoRet
    /\ outbox = EmptyBag

CallGetCanadaNumbers(avail, limit, exclude) ==
    /\ \E net \in BOOLEAN :
          LET g == get_canada_numbers(SubSeq(avail, 1, Min(TwilioLimit, Len(avail))),
                                      net, numbers, limit, exclude)
          IN  ret' = [NoRet EXCEPT !.op = "get_canada_numbers",
                        !.ok = (g.error = None),
                        !.err = IF g.error = None THEN "" ELSE g.error[1],
                        !.upstream = <<"list">>, !.result = g.numbers,
                        !.args = [avail |-> avail, limit |-> limit, exclude |-> exclude]]
    /\ UNCHANGED <<users, credentials, numbers, held, now, state, data, pc, loc, sweep,
                   rot, lastbuy, outbox>>

NextList ==
    /\ ret = NoRet
    /\ \E avail \in SeqsUpTo(ListNumbers, MaxList), limit \in 1..MaxList,
          exclude \in SeqsUpTo(ListNumbers, MaxExclude) :
             CallGetCanadaNumbers(avail, limit, exclude)

SpecList == InitList /\ [][NextList]_vars

(* The subscription desk from the payment proof on.  process_plan_selection
   never stores a selection (its key lookup fails for every plan button), so
   the handlers behind it are entered with the session they are registered
   for: the subscriber's chat is in start, or in awaiting_payment with or
   without a selection in its data.  Administrators press the buttons of the
   requests they were sent; anybody else can only send the callback data. *)
InitDesk ==
    /\ users = FirstContacts
    /\ credentials = <<>>
    /\ numbers = <<>>
    /\ held = [n \in Numbers |-> Free]
    /\ now = 0
    /\ \E st \in {"start", "awaiting_payment"},
          sel \in {None} \cup {Some(k) : k \in DOMAIN SUBSCRIPTION_PLANS} :
          /\ st = "start" => sel = None
          /\ state = [u \in UserIds |-> IF is_admin(u) THEN "main_menu" ELSE st]
          /\ data = [u \in UserIds |->
                        IF is_admin(u) THEN NoData
                        ELSE [NoData EXCEPT !.selected_plan = sel]]
    /\ pc = [u \in UserIds |-> "idle"]
    /\ loc = [u \in UserIds |-> NoLoc]
    /\ sweep = <<>>
    /\ rot = NoRot
    /\ lastbuy = [u \in UserIds |-> NoBuy]
    /\ ret = NoRet
    /\ outbox = EmptyBag

NextDesk ==
    \/ TickTo(MaxTime)
    \/ \E u \in UserIds : process_start_callback(u)
    \/ \E u \in UserIds, cb \in PlanButtons : process_plan_selection(u, cb)
    \/ \E u \in UserIds : process_payment_screenshot(u)
    \/ \E u \in UserIds : PaymentSend(u)
    \/ \E u \in UserIds : PaymentSet(u)
    \/ \E a \in Admins : \E m \in Requests(a) : process_approval(a, m.about, m.plan)
    \/ \E a \in Admins : \E m \in Requests(a) : process_denial(a, m.about, m.plan)
    \/ \E a \in UserIds \ {BOSS_ID}, t \in UserIds, p \in PlanNames :
          process_approval(a, t, p)
    \/ \E a \in UserIds \ {BOSS_ID}, t \in UserIds, p \in PlanNames :
          process_denial(a, t, p)

SpecDesk == InitDesk /\ [][NextDesk]_vars

(* Purchases beside Twilio accounts being closed: the restart of the broker
   with at least one credential loaded, and the operator marking credential
   documents invalid while handlers run. *)
InitShrink == InitRestart(Granted(FirstContacts, "101", "6_hours"), 1..MaxCreds)

NextShrink ==
    \/ \E u \in UserIds : cmd_start(u)
    \/ \E u \in UserIds : StartSet(u)
    \/ \E u \in UserIds : browse_numbers(u)
    \/ \E u \in UserIds : BrowseList(u)
    \/ \E u \in UserIds : BrowseSet(u)
    \/ \E u \in UserIds : BrowseAgain(u)
    \/ \E u \in UserIds, n \in Numbers : buy_number_callback(u, n)
    \/ \E u \in UserIds : BuyCall(u)
    \/ \E i \in 1..MaxCreds : InvalidateCredential(i)

SpecShrink == InitShrink /\ [][NextShrink]_vars

(* The broker beside Twilio accounts being closed: every handler that asks
   get_next_sid for a credential, in the subscriber's chat, with the
   credentials marked invalid by the operator while the chat is browsing. *)
InitOutage == InitRestart(Granted(FirstContacts, "101", "6_hours"), {MaxCreds})

NextOutage ==
    \/ \E u \in Subscribers : cmd_start(u)
    \/ \E u \in Subscribers : StartSet(u)
    \/ \E u \in Subscribers : browse_numbers(u)
    \/ \E u \in Subscribers : BrowseList(u)
    \/ \E u \in Subscribers : BrowseSet(u)
    \/ \E u \in Subscribers : BrowseAgain(u)
    \/ \E u \in Subscribers : refresh_numbers(u)
    \/ \E u \in Subscribers : RefreshList(u)
    \/ \E u \in Subscribers, n \in Numbers : buy_number_callback(u, n)
    \/ \E u \in Subscribers : BuyCall(u)
    \/ \E u \in Subscribers, n \in Numbers : delete_number_callback(u, n)
    \/ \E u \in Subscribers : DeleteCall(u)
    \/ \E u \in Subscribers, n \in Numbers : check_otp_callback(u, n)
    \/ \E u \in Subscribers : OtpCall(u)
    \/ \E i \in 1..MaxCreds : InvalidateCredential(i)

SpecOutage == InitOutage /\ [][NextOutage]_vars

(* The registry: the handlers and the task that write user documents, beside
   the delete-user command.  The subscriber and the boss hold the shortest
   plan, one credential is loaded, and the subscriber's chat browses, buys and
   releases while administrators grant, deny and delete and the sweeper runs. *)
InitRegistry ==
    InitRestart(Granted(Granted(FirstContacts, "101", "6_hours"), BOSS_ID, "6_hours"), {1})

NextRegistry ==
    \/ Tick
    \/ \E u \in Subscribers : cmd_start(u)
    \/ \E u \in Subscribers : StartSet(u)
    \/ \E a \in UserIds, t \in Subscribers : cmd_delete_user(a, t)
    \/ \E a \in UserIds, t \in Subscribers : process_approval(a, t, "6 hours")
    \/ \E a \in UserIds, t \in Subscribers : process_denial(a, t, "6 hours")
    \/ \E u \in Subscribers : browse_numbers(u)
    \/ \E u \in Subscribers : BrowseList(u)
    \/ \E u \in Subscribers : BrowseSet(u)
    \/ \E u \in Subscribers : ExpiredSet(u)
    \/ \E u \in Subscribers : BrowseAgain(u)
    \/ \E u \in Subscribers, n \in Numbers : buy_number_callback(u, n)
    \/ \E u \in Subscribers : BuyCall(u)
    \/ \E u \in Subscribers, n \in Numbers : delete_number_callback(u, n)
    \/ \E u \in Subscribers : DeleteCall(u)
    \/ SweepBegin
    \/ SweepNext

SpecRegistry == InitRegistry /\ [][NextRegistry]_vars

(* The credential vault, from the empty database: chats reach the main menu
   (on /start for an administrator, by the back button of a listing that an
   earlier session left in the chat for anybody), open the load-credential
   prompt and send a text. *)
NextVault ==
    \/ \E u \in UserIds : cmd_start(u)
    \/ \E u \in UserIds : StartSet(u)
    \/ \E u \in UserIds : back_to_main_menu(u)
    \/ \E u \in UserIds : process_load_credential(u)
    \/ \E u \in UserIds, parts \in 1..2, sid \in Accounts, good \in BOOLEAN :
          process_credential(u, parts, sid, good)
    \/ \E u \in UserIds : CredentialSet(u)

InitVault ==
    /\ users = [x \in {} |-> NewUser]
    /\ credentials = <<>>
    /\ numbers = <<>>
    /\ held = [n \in Numbers |-> Free]
    /\ now = 0
    /\ state = [u \in UserIds |-> "none"]
    /\ data = [u \in UserIds |-> NoData]
    /\ pc = [u \in UserIds |-> "idle"]
    /\ loc = [u \in UserIds |-> NoLoc]
    /\ sweep = <<>>
    /\ rot = NoRot
    /\ lastbuy = [u \in UserIds |-> NoBuy]
    /\ ret = NoRet
    /\ \E who \in SUBSET UserIds : outbox = SetToBag({Listing(u, Catalog[1]) : u \in who})

SpecVault == InitVault /\ [][NextVault]_vars

(* The welcome path: a subscription request has been sent to the
   administrators, so the subscriber's chat was left in awaiting_approval by
   process_payment_screenshot; the FSM storage is in memory, so the chat is in
   no state instead when the process has restarted since.  The administrators
   press Approve on the requests they were sent, and the subscriber uses what
   the bot has put in the chat: the /start command, the "Start" and plan
   buttons of the welcome, the "Load Credential" button of the approval notice
   and of the main menu, "Browse Numbers" after a credential is stored, and the
   buttons of a listing (the only message carrying "Back to Main Menu"), which
   the chat may also hold from an earlier session.  The request went to the
   boss and the first of ADMIN_IDS, as far as Telegram delivered it; the clock
   runs, so a granted plan lapses and the gate of browse_numbers refuses. *)
WelcomePlans == {"6_hours"}
WelcomeAdmins == {BOSS_ID, ADMIN_IDS[1]}

InitWelcome ==
    /\ users = FirstContacts
    /\ credentials = <<>>
    /\ numbers = <<>>
    /\ held = [n \in Numbers |-> Free]
    /\ now = 0
    /\ \E st \in {"awaiting_approval", "none"}, k \in WelcomePlans,
          got \in SUBSET WelcomeAdmins, old \in BOOLEAN :
          /\ state = [u \in UserIds |-> IF is_admin(u) THEN "main_menu" ELSE st]
          /\ data = [u \in UserIds |->
                        IF is_admin(u) \/ st = "none" THEN NoData
                        ELSE [NoData EXCEPT !.selected_plan = Some(k)]]
          /\ outbox = ApprovalRequests("101", k, got)
                        (+) (IF old THEN SetToBag({Listing("101", Catalog[1])})
                             ELSE EmptyBag)
    /\ pc = [u \in UserIds |-> "idle"]
    /\ loc = [u \in UserIds |-> NoLoc]
    /\ sweep = <<>>
    /\ rot = NoRot
    /\ lastbuy = [u \in UserIds |-> NoBuy]
    /\ ret = NoRet

NextWelcome ==
    \/ TickTo(MaxWelcomeTime)
    \/ \E a \in Admins : \E m \in Requests(a) : process_approval(a, m.about, m.plan)
    \/ \E a \in Admins : \E m \in Requests(a) : process_denial(a, m.about, m.plan)
    \/ \E u \in Subscribers : cmd_start(u)
    \/ \E u \in Subscribers : StartSet(u)
    \/ \E u \in Subscribers : process_start_callback(u)
    \/ \E u \in Subscribers, cb \in PlanButtons : process_plan_selection(u, cb)
    \/ \E u \in Subscribers : process_load_credential(u)
    \/ \E u \in Subscribers, parts \in 1..2, sid \in {AccountSeq[1]}, good \in BOOLEAN :
          process_credential(u, parts, sid, good)
    \/ \E u \in Subscribers : CredentialSet(u)
    \/ \E u \in Subscribers : browse_numbers(u)
    \/ \E u \in Subscribers : BrowseList(u)
    \/ \E u \in Subscribers : BrowseSet(u)
    \/ \E u \in Subscribers : ExpiredSet(u)
    \/ \E u \in Subscribers : BrowseAgain(u)
    \/ \E u \in Subscribers : refresh_numbers(u)
    \/ \E u \in Subscribers : RefreshList(u)
    \/ \E u \in Subscribers, n \in Numbers : buy_number_callback(u, n)
    \/ \E u \in Subscribers : BuyCall(u)
    \/ \E u \in Subscribers, n \in Numbers : delete_number_callback(u, n)
    \/ \E u \in Subscribers : DeleteCall(u)
    \/ \E u \in Subscribers, n \in Numbers : check_otp_callback(u, n)
    \/ \E u \in Subscribers : OtpCall(u)
    \/ \E u \in Subscribers : back_to_main_menu(u)

SpecWelcome == InitWelcome /\ [][NextWelcome]_vars

(******************************** claims ************************************)
HasExpiry(user) == user.subscription_end # None
Unexpired(user, t) == HasExpiry(user) /\ t < user.subscription_end[1]

\* C1 as claimed: after every write of a user document by a handler and after
\* every completed sweep pass (no pass is under way in the new state), every
\* (non-administrative) subscriber's activation flag is true iff an expiry is
\* present and in the future.
C1_ActiveIffUnexpired ==
    [][(sweep' = <<>> /\ (users' # users \/ sweep # <<>>))
          => \A id \in DOMAIN users' :
                ~is_admin(id) =>
                    (users'[id].is_active <=> Unexpired(users'[id], now'))]_vars

\* C1, amended: in every reachable state a subscriber whose flag is true has an
\* expiry, and a subscriber whose expiry is present and not yet past has the flag
\* true; a flag stays true after its expiry until a sweep pass rewrites the document.
C1_FlagExpiryCoherent ==
    \A id \in DOMAIN users :
        /\ users[id].is_active => HasExpiry(users[id])
        /\ (HasExpiry(users[id]) /\ now <= users[id].subscription_end[1])
              => users[id].is_active

\* a pass has deactivated one user while another one, granted again since, is
\* active and unexpired
C1_Witness ==
    /\ ret.op = "check_subscriptions" /\ sweep = <<>>
    /\ ret.user \in DOMAIN users /\ ~users[ret.user].is_active
    /\ HasExpiry(users[ret.user]) /\ users[ret.user].subscription_end[1] < now
    /\ \E id \in DOMAIN users : users[id].is_active /\ Unexpired(users[id], now)

\* C2: the numbers collection never holds two documents with the same number,
\* whatever the interleaving of purchases and releases.
C2_NumbersUnique ==
    \A i, j \in 1..Len(numbers) : numbers[i].number = numbers[j].number => i = j

\* a user who was offered a number tried to buy it after another user had
\* bought it, and the attempt failed
C2_Witness ==
    /\ ret.op = "buy_number" /\ ~ret.ok /\ ret.present
    /\ InSeq(ret.number, data[ret.user].current_numbers)
    /\ FindNumber(numbers, ret.number) # 0
    /\ numbers[FindNumber(numbers, ret.number)].user_id # ret.user

\* C3: with the valid credentials fixed, consecutive successful purchases of a
\* user walk the credentials in order: each uses the credential that follows,
\* cyclically, the one its previous successful purchase used.
C3_RotationInOrder ==
    [][\A u \in UserIds :
          (pc[u] = "buy" /\ pc'[u] # "buy" /\ ret'.ok /\ lastbuy[u] # NoBuy)
          => loc[u].index =
                (lastbuy[u] + 1) % Len(get_valid_credentials(credentials))]_vars

\* C5: a user's in-range cursor is moved by a successful purchase only, which
\* sets it to (cursor + 1) mod count; listing, refreshing, reading a message,
\* releasing and a failed purchase leave it as it is.
C5_AdvanceOnlyOnPurchase ==
    [][\A u \in DOMAIN users :
          LET count == Len(get_valid_credentials(credentials))
              cursor == users[u].current_sid_index
          IN  IF pc[u] = "buy" /\ pc'[u] # "buy" /\ ret'.ok
              THEN users'[u].current_sid_index = (cursor + 1) % count
              ELSE cursor < count => users'[u].current_sid_index = cursor]_vars

\* a purchase failed upstream after an earlier one had moved the cursor off 0
C5_Witness ==
    /\ ret.op = "buy_number" /\ ~ret.ok /\ ret.upstream = <<"create">>
    /\ lastbuy[ret.user] = 0 /\ Len(get_valid_credentials(credentials)) = 2
    /\ users[ret.user].current_sid_index = 1

\* C4: when get_next_sid selects a credential its index is below the number
\* of valid credentials it read; a stored cursor at or above that number is
\* reset to 0 and saved, and the credential at index 0 is the one selected.
C4_IndexInRange ==
    [][(credentials' = credentials /\ ret'.op = "get_next_sid" /\ rot'.found
          /\ (rot' # rot \/ users' # users \/ ret' # ret))
       => LET valid == get_valid_credentials(credentials)
              u == rot'.user
              stored == users[u].current_sid_index
          IN  /\ rot'.index < Len(valid)
              /\ ret'.sid = valid[rot'.index + 1].sid
              /\ stored >= Len(valid)
                    => /\ rot'.index = 0 /\ rot'.saved
                       /\ users'[u].current_sid_index = 0
              /\ stored < Len(valid)
                    => (rot'.index = stored /\ users' = users)]_vars

\* a cursor left at 1 by two loaded credentials met a valid set of one
C4_Witness ==
    /\ rot.found /\ rot.stored >= rot.count /\ rot.count >= 1
    /\ rot.saved /\ rot.index = 0

\* C7 as claimed: for every listing, allocated table, exclude list and limit,
\* get_canada_numbers returns the first limit elements, in listing order, of
\* the listing without the allocated and the excluded numbers.
Filtered(avail, nums, exclude) ==
    SelectSeq(avail, LAMBDA n : n \notin UsedNumbers(nums) /\ ~InSeq(n, exclude))

C7_FirstCountOfFiltered ==
    (ret.op = "get_canada_numbers" /\ ret.ok /\ ret.upstream = <<"list">>)
    => LET f == Filtered(ret.args.avail, numbers, ret.args.exclude)
       IN  ret.result = SubSeq(f, 1, Min(ret.args.limit, Len(f)))

\* a call whose listing holds an allocated number and an excluded one that is
\* not allocated, and more numbers after the filter than the limit asks for
C7_Witness ==
    /\ ret.op = "get_canada_numbers" /\ ret.ok /\ ret.upstream = <<"list">>
    /\ \E i \in 1..Len(ret.args.avail) : ret.args.avail[i] \in UsedNumbers(numbers)
    /\ \E i \in 1..Len(ret.args.avail) :
          /\ InSeq(ret.args.avail[i], ret.args.exclude)
          /\ ret.args.avail[i] \notin UsedNumbers(numbers)
    /\ Len(Filtered(ret.args.avail, numbers, ret.args.exclude)) > ret.args.limit
    /\ Len(ret.result) = ret.args.limit

\* C6 as claimed: a purchase of a number that already has a document in the
\* numbers collection is refused without a call to Twilio.
C6_RejectedLocally ==
    (ret.op = "buy_number" /\ ret.present) => (~ret.ok /\ ret.upstream = <<>>)

\* C8: delete_number for a number without a document returns the not-found
\* failure, calls Twilio not at all and changes none of the three collections.
C8_ReleaseNotFound ==
    [][\A u \in UserIds :
          (pc[u] = "delete" /\ pc'[u] # "delete"
             /\ FindNumber(numbers, loc[u].number) = 0)
          => /\ ~ret'.ok /\ ret'.err = "Number not found in database"
             /\ ret'.upstream = <<>>
             /\ users' = users /\ credentials' = credentials
             /\ numbers' = numbers /\ held' = held]_vars

C8_Witness ==
    /\ ret.op = "delete_number" /\ ~ret.present
    /\ ret.err = "Number not found in database" /\ ret.upstream = <<>>

\* C9: delete_number removes the document only when Twilio has released the
\* number; when the Twilio call fails the document stays and the call fails.
C9_RemovedAfterRelease ==
    [][\A u \in UserIds :
          (pc[u] = "delete" /\ pc'[u] # "delete")
          => /\ ret'.err = "TwilioRestException"
                  => (~ret'.ok /\ numbers' = numbers /\ held' = held)
             /\ numbers' # numbers
                  => (ret'.ok /\ ret'.upstream = <<"delete">>
                      /\ held[loc[u].number] # Free /\ held'[loc[u].number] = Free)]_vars

C9_Witness ==
    /\ ret.op = "delete_number" /\ ~ret.ok /\ ret.err = "TwilioRestException"
    /\ FindNumber(numbers, ret.number) # 0 /\ held[ret.number] # Free

\* C10: when the Twilio purchase fails, buy_number returns failure, inserts no
\* document and leaves every user document (the cursor with it) as it was.
C10_FailedPurchase ==
    [][\A u \in UserIds :
          (pc[u] = "buy" /\ pc'[u] # "buy" /\ ret'.err = "TwilioRestException")
          => (~ret'.ok /\ numbers' = numbers /\ users' = users /\ held' = held)]_vars

C10_Witness ==
    /\ ret.op = "buy_number" /\ ~ret.ok /\ ret.err = "TwilioRestException"
    /\ FindNumber(numbers, ret.number) = 0
    /\ lastbuy[ret.user] # NoBuy

\* C11: a step of the sweeper for a selected user stores that user inactive and
\* sends one expiry notice for it, and no lapse (user and expiry) ever has more
\* than one notice: the passes that follow send none for it.
NoticesOf(box, id, end) ==
    CopiesIn(Msg("expired", id, id, "", end, TRUE), box)
        + CopiesIn(Msg("expired", id, id, "", end, FALSE), box)

SweepStep == ret'.op = "check_subscriptions" /\ outbox' # outbox

C11_OneNoticePerLapse ==
    [][SweepStep =>
          LET id == ret'.user
              entry == IF sweep = <<>>
                       THEN [telegram_id |-> id, doc |-> users[id]]
                       ELSE sweep[1]
          IN  /\ entry.telegram_id = id
              /\ entry.doc.is_active /\ entry.doc.subscription_end[1] < now
              /\ ~users'[id].is_active
              /\ outbox' = outbox (+) SetToBag({ExpiryNotice(entry, ret'.ok)})
              /\ \A m \in BagToSet(outbox') :
                    m.kind = "expired" => NoticesOf(outbox', m.to, m.at) = 1]_vars

\* the subscriber lapsed twice, at hour 6 and at hour 13, in two passes, and
\* each lapse has its one notice
C11_Witness ==
    /\ NoticesOf(outbox, "101", Some(6)) = 1
    /\ NoticesOf(outbox, "101", Some(13)) = 1
    /\ ~users["101"].is_active /\ sweep = <<>>

\* C20: a notice that Telegram does not deliver leaves the pass going: the
\* users still to be written are those the pass selected, less the one just
\* written, and each of them is stored inactive and sent its notice in turn.
C20_FailureKeepsPassGoing ==
    [][SweepStep =>
          LET before == IF sweep = <<>> THEN Expired(users, now)
                        ELSE {sweep[i].telegram_id : i \in 1..Len(sweep)}
          IN  /\ ret'.user \in before
              /\ {sweep'[i].telegram_id : i \in 1..Len(sweep')} = before \ {ret'.user}
              /\ Len(sweep') = Cardinality(before) - 1
              /\ ~users'[ret'.user].is_active
              /\ NoticesOf(outbox', ret'.user, users'[ret'.user].subscription_end)
                    = NoticesOf(outbox, ret'.user, users'[ret'.user].subscription_end) + 1]_vars

\* the notice of one user of a pass failed, and the other user of that pass was
\* deactivated and notified after it
C20_Witness ==
    /\ ret.op = "check_subscriptions" /\ ret.ok /\ sweep = <<>> /\ now < 13
    /\ \E x \in DOMAIN users :
          /\ x # ret.user /\ ~users[x].is_active
          /\ CopiesIn(Msg("expired", x, x, "", Some(6), FALSE), outbox) = 1
          /\ CopiesIn(Msg("expired", ret.user, ret.user, "", Some(6), TRUE), outbox) = 1
    /\ \A x \in DOMAIN users : ~users[x].is_active

\* C12: a photo in awaiting_payment with no selected plan in the FSM data
\* leaves awaiting_approval unentered, sends no request to the administrators
\* and puts the chat in start.
C12_MissingSelection ==
    [][\A u \in UserIds :
          (state[u] = "awaiting_payment" /\ state'[u] # "awaiting_payment"
             /\ data[u].selected_plan = None)
          => /\ state'[u] = "start"
             /\ outbox' = outbox
             /\ users' = users
             /\ ret'.err = "Something went wrong. Please try again."]_vars

C12_Witness ==
    /\ ret.op = "process_payment_screenshot" /\ ~ret.ok
    /\ state[ret.user] = "start" /\ data[ret.user].selected_plan = None
    /\ outbox = EmptyBag

\* C14: an Approve or Deny press by somebody outside ALL_ADMIN_IDS is refused
\* and leaves every user document as it was.
C14_OnlyAdminsDecide ==
    [][(ret' # ret /\ ret'.op \in {"process_approval", "process_denial"}
          /\ ~InSeq(ret'.user, ALL_ADMIN_IDS))
       => /\ users' = users
          /\ ~ret'.ok
          /\ ret'.err = "You don't have permission for this action"]_vars

\* a subscriber pressed Approve for itself and was refused, its document
\* without a plan
C14_Witness ==
    /\ ret.op = "process_approval" /\ ret.user = "101" /\ ret.about = "101"
    /\ ~ret.ok /\ HasUser(users, "101") /\ ~users["101"].is_active
    /\ users["101"].subscription_end = None

\* C15: an administrator's approval of a request stores the user active, with
\* the plan the user selected and expiry = time of approval + the plan's
\* duration (6, 24, 168 or 360 hours).
C15_ApprovalGrantsSelection ==
    [][(ret'.op = "process_approval" /\ ret'.ok /\ (ret' # ret \/ users' # users))
       => LET t == ret'.about
              plan == SUBSCRIPTION_PLANS[data[t].selected_plan[1]]
          IN  /\ data[t].selected_plan # None
              /\ users'[t].is_active
              /\ users'[t].subscription_type = Some(plan.name)
              /\ users'[t].subscription_end = Some(now + plan.duration)
              /\ plan.duration = CASE data[t].selected_plan[1] = "6_hours" -> 6
                                   [] data[t].selected_plan[1] = "1_day" -> 24
                                   [] data[t].selected_plan[1] = "7_days" -> 168
                                   [] data[t].selected_plan[1] = "15_days" -> 360
              /\ \A x \in DOMAIN users \ {t} : users'[x] = users[x]]_vars

\* a 7-day request approved at hour 6
C15_Witness ==
    /\ ret.op = "process_approval" /\ ret.ok /\ ret.about = "101"
    /\ data["101"].selected_plan = Some("7_days")
    /\ users["101"].is_active /\ users["101"].subscription_end = Some(174)
    /\ now = 6

\* C16 as claimed: an administrator's denial takes the subscriber's chat from
\* awaiting_approval to start, its is_active and subscription_end unchanged.
C16_DenialBackToStart ==
    [][(ret' # ret /\ ret'.op = "process_denial" /\ ret'.ok
          /\ state[ret'.about] = "awaiting_approval")
       => /\ state'[ret'.about] = "start"
          /\ users' = users]_vars

\* C17 as claimed: an approval for a subscriber whose chat is not in
\* awaiting_approval leaves that user's is_active, plan and expiry unchanged.
C17_ApprovalNeedsRequest ==
    [][(ret' # ret /\ ret'.op = "process_approval" /\ HasUser(users, ret'.about)
          /\ ~InSeq(ret'.about, ALL_ADMIN_IDS)
          /\ state[ret'.about] # "awaiting_approval")
       => users'[ret'.about] = users[ret'.about]]_vars

\* C13 as claimed: no intent of a subscriber whose subscription is not valid
\* (stored inactive, or without an expiry in the future) gets as far as a call
\* of Twilio: its handler is not left before a listing, a refresh, a purchase,
\* a release or a reading of messages.
Valid(user, t) == user.is_active /\ Unexpired(user, t)

C13_GatedBySubscription ==
    [][\A u \in DOMAIN users :
          (~InSeq(u, ALL_ADMIN_IDS) /\ ~Valid(users[u], now) /\ pc[u] = "idle")
          => pc'[u] \notin {"loading", "refresh", "buy", "delete", "otp"}]_vars

\* C18: an administrator is admitted whatever its document says: /start puts
\* its chat in main_menu, its chat is never put in start (where the gate of
\* Browse Numbers sends a lapsed subscriber), awaiting_payment or
\* awaiting_approval, and its Browse Numbers, once "Loading ..." is out, calls
\* Twilio's listing.
C18_AdminAlwaysActive ==
    [][\A u \in UserIds :
          InSeq(u, ALL_ADMIN_IDS)
          => /\ (state[u] = "none" /\ state'[u] # "none") => state'[u] = "main_menu"
             /\ state'[u] \notin {"start", "awaiting_payment", "awaiting_approval"}
             /\ (pc[u] = "loading" /\ pc'[u] # "loading")
                  => (ret'.op = "get_canada_numbers" /\ ret'.user = u
                      /\ ret'.upstream = <<"list">>)]_vars

\* the boss, stored inactive and without an expiry, was shown numbers
C18_Witness ==
    /\ state[BOSS_ID] = "browse_numbers"
    /\ ~users[BOSS_ID].is_active /\ users[BOSS_ID].subscription_end = None
    /\ ret.op = "get_canada_numbers" /\ ret.user = BOSS_ID /\ ret.ok
    /\ ret.result # <<>>

\* C19 as claimed: when no credential is valid at the moment buy_number
\* advances the cursor, the cursor stays and the purchase, made at Twilio and
\* recorded, is reported as a success.
C19_AdvanceWithoutCredentials ==
    [][\A u \in UserIds :
          (pc[u] = "buy" /\ pc'[u] # "buy" /\ held' # held
             /\ Len(get_valid_credentials(credentials)) = 0)
          => (ret'.ok /\ users' = users)]_vars

(* C21: when a pass fails on a persistence error after it has written some of
   the documents it selected, the documents it wrote stay as written (every
   subscriber that was sent the notice of its stored expiry is stored with
   activation false), the rest of the batch is dropped, and the task is ready
   for its next pass. *)
C21_PartialSweepKept ==
    [][(ret'.op = "check_subscriptions" /\ ret'.err # "" /\ ret' # ret) =>
          /\ users' = users
          /\ sweep' = <<>>
          /\ \A m \in BagToSet(outbox') :
                (m.kind = "expired" /\ m.to \in DOMAIN users'
                    /\ users'[m.to].subscription_end = m.at)
                  => ~users'[m.to].is_active]_vars

\* a pass failed after it deactivated the boss and before it reached the subscriber
C21_Witness ==
    /\ ret.op = "check_subscriptions" /\ ret.err # "" /\ ret.user = "101"
    /\ sweep = <<>>
    /\ ~users[BOSS_ID].is_active /\ NoticesOf(outbox, BOSS_ID, users[BOSS_ID].subscription_end) > 0
    /\ "101" \in Expired(users, now)

\* the subscriber's record is stored active with an expiry that has passed
Lapsed(u) ==
    /\ HasUser(users, u) /\ users[u].is_active
    /\ users[u].subscription_end # None /\ users[u].subscription_end[1] < now

\* a grant written after the lapse: the stored expiry is not in the past
Regranted(u) ==
    /\ HasUser(users, u) /\ users[u].is_active
    /\ users[u].subscription_end # None /\ users[u].subscription_end[1] >= now

(* C22 as stated: with the sweeper scheduled fairly, a subscriber stored active
   with a passed expiry is eventually stored with activation false, unless a
   new grant is written. *)
C22_EventuallyInactive ==
    \A u \in UserIds :
        Lapsed(u) ~> ((HasUser(users, u) /\ ~users[u].is_active) \/ Regranted(u))

(* C22: with the sweeper scheduled fairly, a subscriber stored active with a
   passed expiry is eventually stored with activation false, unless a new
   grant is written or the record is deleted. *)
C22_EventuallyInactiveOrGone ==
    \A u \in UserIds :
        Lapsed(u) ~> ((HasUser(users, u) /\ ~users[u].is_active) \/ Regranted(u)
                        \/ ~HasUser(users, u))

\* the sweeper has deactivated the subscriber whose plan lapsed, and nobody
\* granted or deleted anything since the first contact
C22_Witness ==
    /\ HasUser(users, "101") /\ ~users["101"].is_active
    /\ users["101"].subscription_end # None /\ users["101"].subscription_end[1] < now
    /\ NoticesOf(outbox, "101", users["101"].subscription_end) = 1
    /\ ret.op = "check_subscriptions" /\ ret.user = "101" /\ ret.err = ""

(* C23: the credential collection changes only by process_credential appending
   one document for the submitted account id, with validity true, in a step in
   which the upstream liveness check was made and succeeded; a submission of
   fewer than two parts or with a failing check leaves the collection as it
   was; so every stored credential has validity true. *)
C23_InsertedAfterCheck ==
    [][/\ credentials' # credentials =>
            /\ ret'.op = "process_credential" /\ ret'.ok
            /\ ret'.upstream = <<"fetch">>
            /\ credentials' = Append(credentials, [telegram_id |-> ret'.user,
                                                   sid |-> ret'.sid, is_valid |-> TRUE])
       /\ (ret'.op = "process_credential" /\ ret' # ret /\ ~ret'.ok) =>
            credentials' = credentials
       /\ \A i \in 1..Len(credentials') : credentials'[i].is_valid]_vars

\* the subscriber sent a two-part text that Twilio accepted: it is stored as the
\* second credential and the chat is back in the main menu
C23_Witness ==
    /\ ret.op = "process_credential" /\ ret.ok /\ ret.user = "101"
    /\ Len(credentials) = 2
    /\ credentials[2] = [telegram_id |-> "101", sid |-> ret.sid, is_valid |-> TRUE]
    /\ state["101"] = "main_menu"

(* C26: a submission whose liveness check fails and is answered "Invalid Twilio
   credentials" is notified to every administrative identity when the
   submitter is not an administrator, and to nobody when the submitter is
   one. *)
C26_FailureNotifiesAdmins ==
    [][(ret'.op = "process_credential" /\ ret' # ret
          /\ ret'.upstream = <<"fetch">> /\ ~ret'.ok /\ ret'.shown = "invalid") =>
          ret'.notified = IF InSeq(ret'.user, ALL_ADMIN_IDS) THEN <<>>
                          ELSE ALL_ADMIN_IDS]_vars

\* the subscriber's credentials were refused and the four administrators were told
C26_Witness ==
    /\ ret.op = "process_credential" /\ ret.user = "101"
    /\ ret.upstream = <<"fetch">> /\ ~ret.ok /\ ret.shown = "invalid"
    /\ ret.notified = ALL_ADMIN_IDS /\ Len(ret.notified) = 4
    /\ state["101"] = "load_credential"

(* C24 as stated: a listing that failed upstream carries an error value and one
   that was filtered down to nothing carries an empty sequence and no error;
   the handler that made the call notifies the operators of an upstream error
   (an administrator who made the call is shown the error), and reports an
   empty result as exhausted: it sends no operator notification and shows
   that no numbers are available (stated for the handlers whose report to the
   caller went out). *)
C24_ErrorAndEmptyTreatedApart ==
    [][(ret'.op = "get_canada_numbers" /\ ret' # ret /\ ret'.shown # "") =>
          /\ ret'.err # "" =>
                /\ ~ret'.ok /\ ret'.result = <<>>
                /\ \/ ret'.notified = ALL_ADMIN_IDS
                   \/ InSeq(ret'.user, ALL_ADMIN_IDS) /\ ret'.shown = "error"
          /\ (ret'.err = "" /\ ret'.result = <<>>) =>
                /\ ret'.ok
                /\ ret'.notified = <<>>
                /\ ret'.shown = "none"]_vars

(* C25: a call of get_next_sid that finds no valid credential returns the
   no-credential outcome and neither changes nor saves the caller's cursor,
   and the handler that made the call makes no upstream call: nothing is
   listed, bought, released or read, the handler ends there (it is not left
   waiting before a call), and Twilio and the numbers collection stay as they
   were. *)
C25_NoCredentialNoCall ==
    [][(rot' # rot /\ ~rot'.found) =>
          /\ rot'.count = 0 /\ ~rot'.saved
          /\ rot'.index = rot'.stored
          /\ users' = users
          /\ ret' = ret /\ held' = held /\ numbers' = numbers
          /\ data' = data /\ loc' = loc
          /\ \A u \in UserIds : pc'[u] # pc[u] => pc'[u] = "idle"]_vars

\* the subscriber, whose cursor stands at 1 after a purchase, pressed a button
\* when the last credential had been closed
C25_Witness ==
    /\ rot.user = "101" /\ ~rot.found /\ rot.stored = 1
    /\ users["101"].current_sid_index = 1
    /\ get_valid_credentials(credentials) = <<>>
    /\ state["101"] = "browse_numbers"
    /\ numbers # <<>>

(* C27 as stated: a number that was offered to the subscriber in a browsing
   session and not purchased is not offered again by a later refresh of that
   session.  Here for the refresh after next: when the chat's last listing was a
   refresh that replaced the numbers in its exclude_numbers (the list shown
   before it), the next refresh of the same chat returns none of those. *)
C27_NoReofferAcrossRefreshes ==
    [][(/\ ret.op = "get_canada_numbers" /\ ret.ok /\ ret.result # <<>>
        /\ state[ret.user] = "browse_numbers"
        /\ data[ret.user].current_numbers = ret.result
        /\ ret.args.exclude # <<>>
        /\ ret'.op = "get_canada_numbers" /\ ret'.user = ret.user
        /\ ret'.args.exclude = ret.result)
       => \A i \in 1..Len(ret.args.exclude) :
             ~InSeq(ret.args.exclude[i], ret'.result)]_vars

(* C28: a user record leaves the ledger only in a step of the delete-user
   command issued by an administrator, which removes the record it names and
   no other; the command issued by anybody else leaves the ledger as it was;
   so no sweep, grant, denial, purchase or release removes a record. *)
C28_OnlyAdminDeleteRemoves ==
    [][/\ (\E id \in DOMAIN users : id \notin DOMAIN users') =>
            /\ ret'.op = "cmd_delete_user" /\ ret'.ok
            /\ InSeq(ret'.user, ALL_ADMIN_IDS)
            /\ DOMAIN users' = DOMAIN users \ {ret'.about}
            /\ \A id \in DOMAIN users' : users'[id] = users[id]
       /\ (ret'.op = "cmd_delete_user" /\ ret' # ret
              /\ ~InSeq(ret'.user, ALL_ADMIN_IDS)) =>
            users' = users]_vars

\* the boss deleted the subscriber, who holds a purchased number
C28_Witness ==
    /\ ret.op = "cmd_delete_user" /\ ret.ok /\ ret.user = BOSS_ID /\ ret.about = "101"
    /\ ~HasUser(users, "101") /\ HasUser(users, BOSS_ID)
    /\ \E i \in 1..Len(numbers) : numbers[i].user_id = "101"

\* the document buy_number inserts for the purchase that ret' reports
PurchaseRecord ==
    [number |-> ret'.number, twilio_sid |-> PNSid(ret'.number), user_id |-> ret'.user]

(* C29: buy_number makes the upstream purchase, then inserts the document
   (number, Twilio's reference, owner = the purchaser), then advances the
   cursor, then returns success.  So in a step of buy_number: the document is
   appended exactly when Twilio sold the number; the cursor moves only if the
   document was appended; and a success return finds the document in the
   table with the purchaser as owner and the cursor one step on. *)
C29_PurchaseOrder ==
    [][\A u \in UserIds :
          (pc[u] = "buy" /\ pc'[u] # "buy") =>
             LET sold == held'[ret'.number] # held[ret'.number]
                 inserted == numbers' = Append(numbers, PurchaseRecord)
                 advanced == users' # users
             IN  /\ ret'.op = "buy_number" /\ ret'.user = u
                 /\ ret'.upstream = <<"create">>
                 /\ sold => held[ret'.number] = Free /\ held'[ret'.number] = ret'.sid
                 /\ inserted <=> sold
                 /\ ~inserted => numbers' = numbers
                 /\ advanced => inserted
                 /\ ret'.ok =>
                       /\ inserted
                       /\ FindNumber(numbers', ret'.number) # 0
                       /\ numbers'[FindNumber(numbers', ret'.number)].user_id = u
                       /\ HasUser(users, u) =>
                             users'[u].current_sid_index =
                                (users[u].current_sid_index + 1)
                                   % Len(get_valid_credentials(credentials))]_vars

\* a purchase by the subscriber returned success and moved the cursor from 0 to 1
C29_Witness ==
    /\ ret.op = "buy_number" /\ ret.ok /\ ret.user = "101"
    /\ numbers # <<>>
    /\ numbers[Len(numbers)] = [number |-> ret.number, twilio_sid |-> PNSid(ret.number),
                                 user_id |-> "101"]
    /\ held[ret.number] = ret.sid
    /\ users["101"].current_sid_index = 1
    /\ pc["101"] = "browse"

(* C30: the release call delete_number sends to Twilio names the reference
   stored in the number's document, which is the reference Twilio gave at the
   purchase; it is neither the account id nor the number that the caller
   passed, and a successful release frees the number of that reference. *)
C30_ReleaseByStoredReference ==
    [][\A u \in UserIds :
          (pc[u] = "delete" /\ pc'[u] # "delete" /\ ret'.upstream = <<"delete">>) =>
             LET i == FindNumber(numbers, loc[u].number)
             IN  /\ i # 0
                 /\ ret'.ref = numbers[i].twilio_sid
                 /\ ret'.ref = PNSid(loc[u].number)
                 /\ ret'.ref # loc[u].sid /\ ret'.ref # loc[u].number
                 /\ ret'.ok =>
                       /\ held[loc[u].number] = loc[u].sid
                       /\ held' = [held EXCEPT ![loc[u].number] = Free]]_vars

\* the subscriber released a number: the call named the stored reference, the
\* document is gone and Twilio has the number on sale again
C30_Witness ==
    /\ ret.op = "delete_number" /\ ret.ok /\ ret.user = "101"
    /\ ret.ref = PNSid(ret.number) /\ ret.ref # ret.sid
    /\ FindNumber(numbers, ret.number) = 0
    /\ held[ret.number] = Free

(* C31 as stated: a write of the sweeper changes the activation flag of the
   subscriber it writes and nothing else: that subscriber's plan, expiry and
   cursor, and every other document, are stored after the write as they were
   immediately before it, whatever handlers ran since the pass read its batch. *)
C31_SweepWritesFlagOnly ==
    [][SweepStep =>
          /\ DOMAIN users' = DOMAIN users
          /\ \A id \in DOMAIN users :
                users'[id] = IF id = ret'.user
                             THEN [users[id] EXCEPT !.is_active = FALSE]
                             ELSE users[id]]_vars

(* C32 as stated: the sweeper stores activation false for no subscriber whose
   stored expiry is in the future at the moment of the write. *)
C32_NoStaleDeactivation ==
    [][SweepStep =>
          ~(/\ HasUser(users, ret'.user)
            /\ users[ret'.user].subscription_end # None
            /\ users[ret'.user].subscription_end[1] > now
            /\ ~users'[ret'.user].is_active)]_vars

(* C33 as stated: what buy_number returns agrees with what it stored: it
   returns success exactly when it inserted the document of the number, so
   it never returns failure once Twilio has sold the number and the document
   is in the table. *)
C33_OutcomeMatchesStore ==
    [][\A u \in UserIds :
          (pc[u] = "buy" /\ pc'[u] # "buy") =>
             /\ ret'.op = "buy_number"
             /\ ret'.ok <=> numbers' = Append(numbers, PurchaseRecord)
             /\ ~ret'.ok => (numbers' = numbers /\ held' = held)]_vars

(* C34: every document of the numbers collection names a number that a Twilio
   account holds at that moment, under the reference the document stores. *)
C34_NoGhostOwnership ==
    \A i \in 1..Len(numbers) :
        /\ numbers[i].number \in DOMAIN held
        /\ held[numbers[i].number] \in Accounts
        /\ numbers[i].twilio_sid = PNSid(numbers[i].number)

\* a release that Twilio refused: the document is still there and the number
\* is still held, beside a second number bought by the other user
C34_Witness ==
    /\ ret.op = "delete_number" /\ ~ret.ok /\ ret.err = "TwilioRestException"
    /\ FindNumber(numbers, ret.number) # 0
    /\ held[ret.number] \in Accounts
    /\ Len(numbers) = 2 /\ numbers[1].user_id # numbers[2].user_id

(* C35 as stated: when a subscriber releases a number it purchased, or reads
   its latest message, the Twilio call is made with the credential of the
   account that bought the number, which is the account holding it. *)
C35_SameCredentialAsPurchase ==
    [][/\ \A u \in UserIds :
            (pc[u] = "delete" /\ pc'[u] # "delete" /\ ret'.upstream = <<"delete">>
               /\ numbers[FindNumber(numbers, loc[u].number)].user_id = u)
            => ret'.sid = held[loc[u].number]
       /\ (ret'.op = "check_sms" /\ ret' # ret /\ ret'.upstream = <<"messages">>
              /\ FindNumber(numbers, ret'.number) # 0
              /\ numbers[FindNumber(numbers, ret'.number)].user_id = ret'.user)
            => ret'.sid = held[ret'.number]]_vars

(* C36 as stated: a release removes a document of the numbers collection only
   when the requester is the owner stored in it or an administrator; a release
   by anybody else reaches neither Twilio nor the collection. *)
C36_ReleaseByOwnerOrAdmin ==
    [][/\ \A u \in UserIds :
            (pc[u] = "delete" /\ pc'[u] # "delete" /\ ret'.upstream = <<"delete">>)
            => \/ numbers[FindNumber(numbers, loc[u].number)].user_id = u
               \/ InSeq(u, ALL_ADMIN_IDS)
       /\ \A u \in UserIds, i \in 1..Len(numbers) :
            (state[u] = "browse_numbers" /\ pc[u] = "idle" /\ pc'[u] = "delete"
               /\ loc'[u].number = numbers[i].number)
            => (numbers[i].user_id = u \/ InSeq(u, ALL_ADMIN_IDS))]_vars

(* C37 as stated: the messages of a purchased number are read for its owner or
   for an administrator only: check_sms is not called, under the account that
   holds the number, for a requester who is neither. *)
C37_MessagesForOwnerOnly ==
    [][(ret'.op = "check_sms" /\ ret' # ret /\ ret'.upstream = <<"messages">>
          /\ FindNumber(numbers, ret'.number) # 0
          /\ ret'.sid = held[ret'.number])
       => \/ numbers[FindNumber(numbers, ret'.number)].user_id = ret'.user
          \/ InSeq(ret'.user, ALL_ADMIN_IDS)]_vars


(* C39: the owner of every allocated-number record is a subscriber that exists
   in the user ledger; in particular, once an administrator has removed a
   subscriber with /deleteuser, no numbers record is owned by the removed
   subscriber. *)
C39_OwnersInLedger ==
    \A i \in 1..Len(numbers) : HasUser(users, numbers[i].user_id)


\* the handlers the dispatcher starts for an update from chat u: its
\* commands, its photo or text, and the buttons of the messages the chat holds
Intent(u) ==
    \/ cmd_start(u)
    \/ cmd_admin(u)
    \/ \E t \in UserIds : cmd_delete_user(u, t)
    \/ process_start_callback(u)
    \/ \E cb \in PlanButtons : process_plan_selection(u, cb)
    \/ process_payment_screenshot(u)
    \/ \E m \in Requests(u) : process_approval(u, m.about, m.plan)
    \/ \E m \in Requests(u) : process_denial(u, m.about, m.plan)
    \/ process_load_credential(u)
    \/ \E parts \in 1..2, sid \in Accounts, good \in BOOLEAN :
          process_credential(u, parts, sid, good)
    \/ browse_numbers(u)
    \/ refresh_numbers(u)
    \/ \E n \in Numbers : buy_number_callback(u, n)
    \/ \E n \in Numbers : check_otp_callback(u, n)
    \/ \E n \in Numbers : copy_number_callback(u, n)
    \/ \E n \in Numbers : delete_number_callback(u, n)
    \/ back_to_main_menu(u)

\* an intent that takes the conversation of chat u on: its handler sets the
\* chat's FSM state or is suspended at an await on its way
Proceeds(u) == Intent(u) /\ <<state[u], pc[u]>>' # <<state[u], pc[u]>>

Approved(u) ==
    /\ ret.op = "process_approval" /\ ret.ok /\ ret.about = u
    /\ state[u] = "awaiting_approval"

Lost(u) == ~HasUser(users, u) \/ ~Valid(users[u], now)

(* C38 as claimed: after an administrator approves a subscriber whose chat is
   in awaiting_approval, some sequence of the subscriber's intents leads, while
   the subscription is valid, from the state the chat is left in to main_menu,
   to credential loading and to number browsing.  The chat is left in
   awaiting_approval, which is none of the three, so the sequence has a first
   intent that takes the conversation on (/admin and /deleteuser are handled
   in every state, and leave the conversation where it is): in the state the
   approval leaves, with the subscription valid, such an intent is enabled. *)
C38_ApprovedCanProceed ==
    \A u \in Subscribers : (Approved(u) /\ ~Lost(u)) => ENABLED Proceeds(u)

\* what the handlers do instead: no command or button of this session is
\* handled in awaiting_approval, so the chat never leaves it, before the lapse
\* or after, unless an earlier session left it a listing, whose "Back to Main
\* Menu" is handled in any state
C38_AwaitingApprovalIsFinal ==
    [][\A u \in Subscribers :
          (state[u] = "awaiting_approval" /\ ~OfferedBack(u))
          => (state'[u] = "awaiting_approval" /\ ~OfferedBack(u)')]_vars

====
